---- MODULE Spec2Model ----
(***************************************************************************)
(* Model of ctflgrdiff: the diff engine compute_diff (block pairing,       *)
(* Needleman-Wunsch alignment, traceback, row emission, tail pass), the    *)
(* function selector, and the per-ingester scoring tables.                 *)
(***************************************************************************)
EXTENDS Integers, Sequences, FiniteSets, TLC

\* ------------------------------------------------------------------------
\* Bounds of the explored input space
\* ------------------------------------------------------------------------
\* most basic blocks in one function
MaxBlocks == 2
\* most body instructions in one function (summed over its blocks)
MaxInstrs == 2

\* ------------------------------------------------------------------------
\* Ingesters and their tables
\* ------------------------------------------------------------------------
MachineIngesters == {"avr", "arm32", "arm64", "x86_32"}

Ingesters == MachineIngesters \cup {"llvm"}

\* GAP as a penalty of 1 for machine code
GapPenalty(P) == IF P = "llvm" THEN 2 ELSE 1

\* Program::GAP of the ingester
GAP(P) ==
    CASE P = "avr" -> -1
      [] P = "arm32" -> -1
      [] P = "arm64" -> -1
      [] P = "x86_32" -> -1
      [] P = "llvm" -> 2

\* Instruction::EQUIVALENT (the same for body instructions, terminators and
\* the Option wrapper of every ingester)
EQUIVALENT == 4

\* An instruction is a record: op is the opcode, f and g the fields the
\* scoring tables look at (target type, predicate, atomicity, argument
\* count; operation and atomicity for AtomicRMW).
Inst(op, f, g) == [op |-> op, f |-> f, g |-> g]

\* Option::None of a machine-code terminator
NoneInst == Inst("None", 0, 0)

IntArith == {"Add", "Sub", "UDiv", "SDiv", "URem", "SRem"}

Bitwise == {"And", "Or", "Xor", "Shl", "LShr", "AShr"}

FloatArith == {"FAdd", "FSub", "FMul", "FDiv", "FRem", "FNeg"}

AlwaysEqual == {"ExtractElement", "InsertElement", "ShuffleVector", "Load",
                "Store", "GetElementPtr", "Select", "Freeze", "LandingPad",
                "CatchPad", "CleanupPad"}

FieldCompared == {"Alloca", "Fence", "CmpXchg", "Trunc", "ZExt", "SExt",
                  "FPTrunc", "FPExt", "FPToUI", "FPToSI", "UIToFP", "SIToFP",
                  "PtrToInt", "IntToPtr", "BitCast", "AddrSpaceCast", "ICmp",
                  "FCmp", "Phi", "Call", "VAArg"}

CrossPairs == {<<"ZExt", "SExt">>, <<"SExt", "ZExt">>,
               <<"FPTrunc", "FPExt">>, <<"FPExt", "FPTrunc">>,
               <<"FPToUI", "FPToSI">>, <<"FPToSI", "FPToUI">>,
               <<"UIToFP", "SIToFP">>, <<"SIToFP", "UIToFP">>}

\* score of two llvm_ir::Instruction values
LlvmScore(l, r) ==
    CASE l.op \in IntArith /\ r.op \in IntArith ->
             IF l.op = r.op THEN 4 ELSE 3
      [] l.op \in Bitwise /\ r.op \in Bitwise ->
             IF l.op = r.op THEN 4 ELSE 3
      [] l.op \in FloatArith /\ r.op \in FloatArith ->
             IF l.op = r.op THEN 4 ELSE 3
      [] l.op \in AlwaysEqual /\ l.op = r.op -> 4
      [] l.op \in FieldCompared /\ l.op = r.op ->
             IF l.f = r.f THEN 4 ELSE 3
      [] l.op = "AtomicRMW" /\ r.op = "AtomicRMW" ->
             (IF l.g = r.g THEN 2 ELSE 1) + (IF l.f = r.f THEN 4 ELSE 3)
      [] <<l.op, r.op>> \in CrossPairs ->
             IF l.f = r.f THEN 3 ELSE 2
      [] OTHER -> 0

LlvmTerminators == {"Ret", "Br", "CondBr", "Switch", "IndirectBr", "Invoke",
                    "Resume", "Unreachable", "CleanupRet", "CatchRet",
                    "CatchSwitch", "CallBr"}

\* LlvmTermScore without the arm for Ret
LlvmTermScoreNoRet(l, r) ==
    IF l.op \in (LlvmTerminators \ {"Ret"}) /\ l.op = r.op THEN 4 ELSE 0

\* score of two llvm_ir::Terminator values
LlvmTermScore(l, r) ==
    IF l.op \in LlvmTerminators /\ l.op = r.op THEN 4 ELSE 0

\* score of two machine instructions (the same table for every architecture)
YaxScore(l, r) == IF l.op = r.op THEN 4 ELSE 0

\* score of the Option wrapper used for machine-code terminators
OptionScore(l, r) ==
    IF l # NoneInst /\ r # NoneInst THEN YaxScore(l, r)
    ELSE IF l = NoneInst /\ r = NoneInst THEN EQUIVALENT
    ELSE 0

\* left.score(right) for body instructions of ingester P
Score(P, l, r) == IF P = "llvm" THEN LlvmScore(l, r) ELSE YaxScore(l, r)

\* left.score(right) for terminators of ingester P
TermScore(P, l, r) ==
    IF P = "llvm" THEN LlvmTermScore(l, r) ELSE OptionScore(l, r)

\* render: the text of an instruction (opcode and operand fields)
Render(inst) ==
    IF inst = NoneInst THEN "<no instruction>"
    ELSE IF inst.f = 0 /\ inst.g = 0 THEN inst.op
    ELSE inst.op \o " " \o ToString(inst.f) \o "," \o ToString(inst.g)

\* BasicBlock::name
BlockName(P, block) ==
    IF P = "llvm" THEN "%" \o ToString(block.id) ELSE ToString(block.id)

\* ------------------------------------------------------------------------
\* MatchDirection
\* ------------------------------------------------------------------------
GapLeft == "GapLeft"

GapRight == "GapRight"

Align(exact) == IF exact THEN "Align(true)" ELSE "Align(false)"

NoDirection == "None"

\* ------------------------------------------------------------------------
\* Alignment grid (Needleman-Wunsch)
\* ------------------------------------------------------------------------
Cell(score, direction) == [score |-> score, direction |-> direction]

\* MaxByKey returning the first element of greatest key
MaxByKeyFirst(cands) ==
    LET best[k \in 1..Len(cands)] ==
            IF k = 1 THEN cands[1]
            ELSE IF cands[k].score > best[k - 1].score THEN cands[k]
                 ELSE best[k - 1]
    IN best[Len(cands)]

\* Iterator::max_by_key over the candidate array: the last element of
\* greatest key is returned
MaxByKey(cands) ==
    LET best[k \in 1..Len(cands)] ==
            IF k = 1 THEN cands[1]
            ELSE IF cands[k].score >= best[k - 1].score THEN cands[k]
                 ELSE best[k - 1]
    IN best[Len(cands)]

\* LeftBorder carrying the arrow of the other border
LeftBorderWrongArrow(P, i) == [score |-> i * (-GAP(P)), direction |-> GapLeft]

\* grid[i][0] for i >= 1
LeftBorder(P, i) == Cell(i * (-GAP(P)), GapRight)

\* TopBorder without the gap penalty: leading gaps cost nothing
TopBorderFree(P, j) == Cell(0, GapLeft)

\* grid[0][j] for j >= 1
TopBorder(P, j) == Cell(j * (-GAP(P)), GapLeft)

\* Candidates with the exact flag set by > in place of >=
CandidatesStrict(P, left_block, right_block, diag, up, side, i, j) ==
    LET score == Score(P, left_block.instructions[i + 1],
                          right_block.instructions[j + 1])
    IN << [score |-> diag.score + score,
           direction |-> Align(score > EQUIVALENT)],
          [score |-> up.score - GAP(P), direction |-> GapLeft],
          [score |-> side.score - GAP(P), direction |-> GapRight] >>

\* The three candidates of grid[i + 1][j + 1], in array order
Candidates(P, left_block, right_block, diag, up, side, i, j) ==
    LET score == Score(P, left_block.instructions[i + 1],
                          right_block.instructions[j + 1])
    IN << Cell(diag.score + score, Align(score >= EQUIVALENT)),
          Cell(up.score - GAP(P), GapLeft),
          Cell(side.score - GAP(P), GapRight) >>

\* Grid without the two border loops: the border cells keep the (0, None)
\* the table was allocated with
GridNoBorders(P, left_block, right_block) ==
    LET m == Len(left_block.instructions)
        n == Len(right_block.instructions)
        grid[i \in 0..m, j \in 0..n] ==
            IF i = 0 \/ j = 0 THEN Cell(0, NoDirection)
            ELSE MaxByKey(Candidates(P, left_block, right_block,
                                     grid[i - 1, j - 1], grid[i, j - 1],
                                     grid[i - 1, j], i - 1, j - 1))
    IN grid

\* The filled grid for one pair of blocks; grid[i, j] is the code's
\* grid[i][j], 0 <= i <= left_block.len(), 0 <= j <= right_block.len()
Grid(P, left_block, right_block) ==
    LET m == Len(left_block.instructions)
        n == Len(right_block.instructions)
        grid[i \in 0..m, j \in 0..n] ==
            IF i = 0 /\ j = 0 THEN Cell(0, NoDirection)
            ELSE IF j = 0 THEN LeftBorder(P, i)
            ELSE IF i = 0 THEN TopBorder(P, j)
            ELSE MaxByKey(Candidates(P, left_block, right_block,
                                     grid[i - 1, j - 1], grid[i, j - 1],
                                     grid[i - 1, j], i - 1, j - 1))
    IN grid

Reverse(s) == [k \in 1..Len(s) |-> s[Len(s) + 1 - k]]

\* The traceback loop.  The result carries panicked = TRUE when an index
\* would go below 0 (usize underflow) or a grid access would leave the table.
RECURSIVE TraceLoop(_, _, _, _, _, _, _)
TraceLoop(grid, m, n, i, j, direction, path) ==
    IF direction = NoDirection
    THEN [panicked |-> FALSE, path |-> path]
    ELSE LET di == IF direction = GapLeft THEN 0 ELSE 1
             dj == IF direction = GapRight THEN 0 ELSE 1
         IN IF i < di \/ j < dj \/ i - di > m \/ j - dj > n
            THEN [panicked |-> TRUE, path |-> Append(path, direction)]
            ELSE TraceLoop(grid, m, n, i - di, j - dj,
                           grid[i - di, j - dj].direction,
                           Append(path, direction))

\* Traceback without path.reverse()
TracebackUnreversed(grid, m, n) ==
    LET t == TraceLoop(grid, m, n, m, n, grid[m, n].direction, <<>>)
    IN [panicked |-> t.panicked, path |-> t.path]

\* path from (m, n) back to the origin, then path.reverse()
Traceback(grid, m, n) ==
    LET t == TraceLoop(grid, m, n, m, n, grid[m, n].direction, <<>>)
    IN [panicked |-> t.panicked, path |-> Reverse(t.path)]

\* ------------------------------------------------------------------------
\* Block pairing
\* ------------------------------------------------------------------------
\* best_block = None
NoBest == [some |-> FALSE, score |-> 0, terminator_equivalent |-> FALSE,
           right_id |-> 0, path |-> <<>>]

\* grid[m][n].score + terminator score
PairScore(P, left_block, right_block) ==
    Grid(P, left_block, right_block)[Len(left_block.instructions),
                                     Len(right_block.instructions)].score
    + TermScore(P, left_block.terminator, right_block.terminator)

\* Better with >= in place of >: a later right block of equal score wins
BetterOrEqual(score, best) ==
    score > 0 /\ (IF best.some THEN score >= best.score ELSE TRUE)

\* the test guarding the replacement of best_block
Better(score, best) ==
    score > 0 /\ (IF best.some THEN score > best.score ELSE TRUE)

\* One iteration of the loop over the right blocks (right_id is 0-based)
ConsiderRight(P, left_block, right_block, right_id, acc) ==
    LET m == Len(left_block.instructions)
        n == Len(right_block.instructions)
        grid == Grid(P, left_block, right_block)
        terminator_score == TermScore(P, left_block.terminator,
                                      right_block.terminator)
        score == grid[m, n].score + terminator_score
        t == Traceback(grid, m, n)
    IN IF acc.panicked \/ ~Better(score, acc.best) THEN acc
       ELSE [panicked |-> t.panicked,
             best |-> [some |-> TRUE, score |-> score,
                       terminator_equivalent |->
                           terminator_score >= EQUIVALENT,
                       right_id |-> right_id, path |-> t.path]]

\* The whole loop over right_func.blocks().enumerate() for one left block
FindBest(P, left_block, right_blocks) ==
    LET acc[k \in 0..Len(right_blocks)] ==
            IF k = 0 THEN [panicked |-> FALSE, best |-> NoBest]
            ELSE ConsiderRight(P, left_block, right_blocks[k], k - 1,
                               acc[k - 1])
    IN acc[Len(right_blocks)]

\* ------------------------------------------------------------------------
\* Rows
\* ------------------------------------------------------------------------
\* D::block_row
BlockRow(left, right) ==
    [kind |-> "block", left |-> left, right |-> right, direction |-> "-"]

\* D::row
Row(left, right, direction) ==
    [kind |-> "row", left |-> left, right |-> right, direction |-> direction]

\* D::function
FunctionDiff(left_name, right_name, rows) ==
    [left_name |-> left_name, right_name |-> right_name, rows |-> rows]

\* The direction given to the terminator row of an orphaned left block
OrphanTerminatorDirection == Align(FALSE)

\* The loop over path of a paired block: the rows pushed, whether has_diff
\* is set, and whether a get(i) / get(j) was out of bounds
RECURSIVE EmitPath(_, _, _, _, _, _)
EmitPath(left_block, right_block, path, i, j, acc) ==
    IF path = <<>> THEN acc
    ELSE LET direction == Head(path)
             useL == direction # GapLeft
             useR == direction # GapRight
         IN IF (useL /\ i >= Len(left_block.instructions))
               \/ (useR /\ j >= Len(right_block.instructions))
            THEN [acc EXCEPT !.panicked = TRUE]
            ELSE EmitPath(left_block, right_block, Tail(path),
                     IF useL THEN i + 1 ELSE i,
                     IF useR THEN j + 1 ELSE j,
                     [rows |-> Append(acc.rows,
                          Row(IF useL THEN Render(left_block.instructions[i + 1])
                              ELSE "",
                              IF useR THEN Render(right_block.instructions[j + 1])
                              ELSE "",
                              direction)),
                      diff |-> acc.diff \/ direction # Align(TRUE),
                      panicked |-> FALSE])

\* Rows of a left block paired with right_block
PairedRows(P, left_block, right_block, best) ==
    LET e == EmitPath(left_block, right_block, best.path, 0, 0,
                      [rows |-> <<>>, diff |-> FALSE, panicked |-> FALSE])
    IN [panicked |-> e.panicked,
        diff |-> e.diff,
        rows |-> <<BlockRow(BlockName(P, left_block),
                            BlockName(P, right_block))>>
                 \o e.rows
                 \o <<Row(Render(left_block.terminator),
                          Render(right_block.terminator),
                          Align(best.terminator_equivalent))>>]

\* Rows of an orphaned left block
OrphanRows(P, left_block) ==
    <<BlockRow(BlockName(P, left_block), "")>>
    \o [k \in 1..Len(left_block.instructions) |->
           Row(Render(left_block.instructions[k]), "", GapRight)]
    \o <<Row(Render(left_block.terminator), "", OrphanTerminatorDirection)>>

\* UnusedRows without the block header
UnusedRowsNoHeader(P, unused_block) ==
    [k \in 1..Len(unused_block.instructions) |->
        Row("", Render(unused_block.instructions[k]), GapLeft)]
    \o <<Row("", Render(unused_block.terminator), GapLeft)>>

\* Rows of one unused right block in the tail pass
UnusedRows(P, unused_block) ==
    <<BlockRow("", BlockName(P, unused_block))>>
    \o [k \in 1..Len(unused_block.instructions) |->
           Row("", Render(unused_block.instructions[k]), GapLeft)]
    \o <<Row("", Render(unused_block.terminator), GapLeft)>>

\* IsUnused testing the 1-based position instead of the enumerate index
IsUnusedOffByOne(id, used) == (id + 1) \notin used

\* the filter of the tail pass (id is the 0-based enumerate index)
IsUnused(id, used) == id \notin used

\* Rows of the whole tail pass, in right-block order
TailRows(P, right_blocks, used) ==
    LET acc[k \in 0..Len(right_blocks)] ==
            IF k = 0 THEN <<>>
            ELSE IF IsUnused(k - 1, used)
                 THEN acc[k - 1] \o UnusedRows(P, right_blocks[k])
                 ELSE acc[k - 1]
    IN acc[Len(right_blocks)]

\* The rows of one function pair: the loop over the left blocks, then the
\* tail pass
FunctionRows(P, left_blocks, right_blocks) ==
    LET acc[k \in 0..Len(left_blocks)] ==
            IF k = 0 THEN [rows |-> <<>>, used |-> {}]
            ELSE LET best == FindBest(P, left_blocks[k], right_blocks).best
                 IN IF best.some
                    THEN [rows |-> acc[k - 1].rows
                                   \o PairedRows(P, left_blocks[k],
                                          right_blocks[best.right_id + 1],
                                          best).rows,
                          used |-> acc[k - 1].used \cup {best.right_id}]
                    ELSE [rows |-> acc[k - 1].rows
                                   \o OrphanRows(P, left_blocks[k]),
                          used |-> acc[k - 1].used]
        done == acc[Len(left_blocks)]
    IN done.rows \o TailRows(P, right_blocks, done.used)

\* ------------------------------------------------------------------------
\* Programs
\* ------------------------------------------------------------------------
\* Names in the order of str::cmp (the key order of the BTreeMap)
NameOrder == <<"bar()", "f", "foo()", "g", "h">>

\* demangle: the raw symbol unless a mangling scheme recognises it
Demangle(symbol) ==
    CASE symbol = "_ZN3fooEv" -> "foo()"
      [] symbol = "_ZN3barEv" -> "bar()"
      [] OTHER -> symbol

\* A function of a program
Func(name, blocks) == [name |-> name, blocks |-> blocks]

\* Option::None of a function lookup
NoFunc == Func("", <<>>)

\* collect() of (name, function) entries into a BTreeMap: keys in order, the
\* last entry of a key wins; the map is kept as the sequence of its values
BTreeCollect(entries) ==
    LET keys == {entries[k].name : k \in 1..Len(entries)}
        last(key) == entries[CHOOSE k \in 1..Len(entries) :
                        /\ entries[k].name = key
                        /\ \A k2 \in 1..Len(entries) :
                              entries[k2].name = key => k2 <= k]
        ordered == SelectSeq(NameOrder, LAMBDA key : key \in keys)
    IN [k \in 1..Len(ordered) |-> last(ordered[k])]

\* GoblinYax::parse (convert + collect) on the function entries of a file
YaxParse(file) ==
    BTreeCollect([k \in 1..Len(file.funcs) |->
                    Func(Demangle(file.funcs[k].name), file.funcs[k].blocks)])

\* llvm_ir::Module::from_bc_path: the functions in module order
LlvmParse(file) == file.funcs

\* P::parse of a readable, well-formed file
Parse(P, file) == IF P = "llvm" THEN LlvmParse(file) ELSE YaxParse(file)

\* Program::get: the function of that name, if any
Get(program, fname) ==
    IF \E k \in 1..Len(program) : program[k].name = fname
    THEN program[CHOOSE k \in 1..Len(program) :
                    /\ program[k].name = fname
                    /\ \A k2 \in 1..(k - 1) : program[k2].name # fname]
    ELSE NoFunc

\* FunctionName
Same(fname) == [kind |-> "Same", l |-> fname, r |-> fname]

Different(left_name, right_name) ==
    [kind |-> "Different", l |-> left_name, r |-> right_name]

Unspecified == [kind |-> "Unspecified", l |-> "", r |-> ""]

\* Results of compute_diff
NoResult == [kind |-> "running", side |-> "", has_diff |-> FALSE]

Err(kind, side) == [kind |-> kind, side |-> side, has_diff |-> FALSE]

Ok(flag) == [kind |-> "Ok", side |-> "", has_diff |-> flag]

\* FindFunctions with the sides of the two one-sided errors exchanged
FindFunctionsSwapped(l, r) ==
    IF l # NoFunc /\ r # NoFunc
    THEN [err |-> NoResult, pairs |-> << <<l, r>> >>]
    ELSE IF l = NoFunc /\ r # NoFunc
    THEN [err |-> Err("NoMatch", "Right"), pairs |-> <<>>]
    ELSE IF l # NoFunc /\ r = NoFunc
    THEN [err |-> Err("NoMatch", "Left"), pairs |-> <<>>]
    ELSE [err |-> Err("NoMatch", "Both"), pairs |-> <<>>]

\* find_functions
FindFunctions(l, r) ==
    IF l # NoFunc /\ r # NoFunc
    THEN [err |-> NoResult, pairs |-> << <<l, r>> >>]
    ELSE IF l = NoFunc /\ r # NoFunc
    THEN [err |-> Err("NoMatch", "Left"), pairs |-> <<>>]
    ELSE IF l # NoFunc /\ r = NoFunc
    THEN [err |-> Err("NoMatch", "Right"), pairs |-> <<>>]
    ELSE [err |-> Err("NoMatch", "Both"), pairs |-> <<>>]

\* CommonFunctions walking the right map instead of the left program
CommonFunctionsRightOrder(l, r) ==
    LET rmap == BTreeCollect(r)
        hits == SelectSeq(rmap, LAMBDA fn : Get(l, fn.name) # NoFunc)
        result == [k \in 1..Len(hits) |->
                      <<Get(l, hits[k].name), hits[k]>>]
    IN IF result = <<>>
       THEN [err |-> Err("NoMatch", "Both"), pairs |-> <<>>]
       ELSE [err |-> NoResult, pairs |-> result]

\* The Unspecified arm: left functions whose name the right map holds
CommonFunctions(l, r) ==
    LET rmap == BTreeCollect(r)
        hits == SelectSeq(l, LAMBDA fn : Get(rmap, fn.name) # NoFunc)
        result == [k \in 1..Len(hits) |->
                      <<hits[k], Get(rmap, hits[k].name)>>]
    IN IF result = <<>>
       THEN [err |-> Err("NoMatch", "Both"), pairs |-> <<>>]
       ELSE [err |-> NoResult, pairs |-> result]

\* The match on the selector
ResolvePairs(sel, l, r) ==
    IF sel.kind = "Unspecified" THEN CommonFunctions(l, r)
    ELSE FindFunctions(Get(l, sel.l), Get(r, sel.r))

\* ------------------------------------------------------------------------
\* Input space
\* ------------------------------------------------------------------------
\* Body (non flow-control) instructions explored per ingester
BodyInsts(P) ==
    CASE P = "avr" -> {Inst("nop", 0, 0), Inst("add", 0, 0)}
      [] P = "llvm" -> {Inst("Add", 0, 0), Inst("Sub", 0, 0), Inst("Mul", 0, 0)}
      [] OTHER -> {Inst("mov", 0, 0), Inst("add", 0, 0)}

\* Terminators explored per ingester (flow-control instructions)
FlowInsts(P) ==
    CASE P = "avr" -> {Inst("ret", 0, 0), Inst("rjmp", 0, 0)}
      [] P = "arm32" -> {Inst("bx", 0, 0), Inst("b", 0, 0)}
      [] P = "arm64" -> {Inst("ret", 0, 0), Inst("b", 0, 0)}
      [] P = "x86_32" -> {Inst("ret", 0, 0), Inst("jz", 0, 0)}
      [] P = "llvm" -> {Inst("Ret", 0, 0), Inst("Br", 0, 0)}

\* Every terminator value explored: for machine code also Option::None
Terminators(P) ==
    IF P = "llvm" THEN FlowInsts(P) ELSE FlowInsts(P) \cup {NoneInst}

\* Terminators of the files whose bodies vary: the first flow-control
\* instruction, and for machine code also the absent terminator
DiffTerminators(P) ==
    IF P = "llvm" THEN {Inst("Ret", 0, 0)} ELSE {Inst("ret", 0, 0), NoneInst}

SeqsUpTo(S, k) == UNION {[1..n -> S] : n \in 0..k}

RECURSIVE SumLen(_, _)
SumLen(blocks, k) ==
    IF k = 0 THEN 0 ELSE Len(blocks[k].instructions) + SumLen(blocks, k - 1)

\* Block lists an ingester can build: only the last block can lack a
\* terminator, and only with a non-empty body
WellFormed(blocks, instrBound) ==
    /\ SumLen(blocks, Len(blocks)) <= instrBound
    /\ \A k \in 1..Len(blocks) :
          blocks[k].terminator = NoneInst =>
              k = Len(blocks) /\ blocks[k].instructions # <<>>

\* The block lists within the bounds; the id of a block is its position
BlockLists(P, terms, blockBound, instrBound) ==
    LET raw == [instructions : SeqsUpTo(BodyInsts(P), instrBound),
                terminator : terms]
        lists == {bl \in SeqsUpTo(raw, blockBound) : WellFormed(bl, instrBound)}
    IN {[k \in 1..Len(bl) |->
            [id |-> k - 1, instructions |-> bl[k].instructions,
             terminator |-> bl[k].terminator]] : bl \in lists}

File(funcs) == [ok |-> TRUE, funcs |-> funcs]

\* a file P::parse rejects
BadFile == [ok |-> FALSE, funcs |-> <<>>]

\* Files holding the single function f, over every block list in the bounds
DiffFiles(P) == {File(<<Func("f", bl)>>) : bl \in BlockLists(P, DiffTerminators(P), MaxBlocks, MaxInstrs)}

\* Files of zero to two functions named f and g, in either file order, with
\* functions of one block without body instructions
SelectFiles(P) ==
    LET small == {bl \in BlockLists(P, Terminators(P), 1, 0) : Len(bl) = 1}
        named(n) == {Func(n, bl) : bl \in small}
    IN {File(<<>>)}
       \cup {File(<<a>>) : a \in named("f") \cup named("g")}
       \cup {File(<<a, b>>) : a \in named("f"), b \in named("g")}
       \cup {File(<<b, a>>) : a \in named("f"), b \in named("g")}
       \cup {BadFile}

Selectors ==
    {Unspecified}
    \cup {Same(n) : n \in {"f", "g", "h"}}
    \cup {Different(a, b) : a \in {"f", "h"}, b \in {"g", "h"}}

\* the two symbols of the mangled-name scenario
MangledLeft == "_ZN3fooEv"

MangledRight == "_ZN3barEv"

\* Files holding one function under the given symbol, of one block without
\* body instructions
SymbolFiles(P, symbol) ==
    {File(<<Func(symbol, bl)>>) :
        bl \in {b \in BlockLists(P, Terminators(P), 1, 0) : Len(b) = 1}}

\* ------------------------------------------------------------------------
\* Ingestion of machine code: containers, symbols, decoding
\* ------------------------------------------------------------------------
\* longest file content explored, in bytes
MaxBytes == 3

\* most symbols of one object file
MaxSyms == 2

\* most members of one archive
MaxMembers == 2

\* Byte values, named after what the decoder makes of them as the first
\* byte of an instruction: two one-byte instructions (one of them flow
\* control), the first byte of a two-byte instruction, an undefined opcode
Bytes == {"nop", "ret", "ldi", "bad"}

\* Result<Instruction, DecodeError> of decoder.decode, with inst.len()
DecodeOk(inst, len) == [err |-> FALSE, inst |-> inst, len |-> len]

DecodeErr == [err |-> TRUE, inst |-> NoneInst, len |-> 0]

\* decoder.decode(&mut reader) on a non-empty rest of the function's bytes:
\* the reader cannot look past the end of the function
Decode(rest) ==
    CASE rest[1] = "nop" -> DecodeOk(Inst("nop", 0, 0), 1)
      [] rest[1] = "ret" -> DecodeOk(Inst("ret", 0, 0), 1)
      [] rest[1] = "ldi" -> IF Len(rest) >= 2
                            THEN DecodeOk(Inst("ldi", 0, 0), 2)
                            ELSE DecodeErr
      [] OTHER -> DecodeErr

\* inst.is_flow_control()
IsFlowControl(P, inst) == inst \in FlowInsts(P)

\* Option::None of buffer.get
NoSlice == [some |-> FALSE, bytes |-> <<>>]

\* buffer.get(from..to): the bytes from..to (0-based, to excluded), None
\* when the range is reversed or runs past the end of the buffer
SliceGet(buffer, from, to) ==
    IF from <= to /\ to <= Len(buffer)
    THEN [some |-> TRUE, bytes |-> SubSeq(buffer, from + 1, to)]
    ELSE NoSlice

\* .filter(|v| !v.is_empty())
NonEmpty(slice) == IF slice.some /\ slice.bytes # <<>> THEN slice ELSE NoSlice

\* A symbol name the string table could not produce (Option::None)
NoName == "<none>"

\* (name, start, end) handed to convert
Entry(name, start, end) == [name |-> name, start |-> start, end |-> end]

\* What Object::parse makes of a file; entries are the functions the
\* container's symbol table enumerates (for Mach-O: the export trie), members
\* the members of an archive (for fat Mach-O: the architectures), symbols
\* the raw table of a PE (exports) or a Mach-O (nlist), segments the load
\* commands of a Mach-O, exports_ok whether mach.exports() succeeds
Obj(kind, buffer, entries, members) ==
    [kind |-> kind, buffer |-> buffer, entries |-> entries,
     members |-> members, symbols |-> <<>>, segments |-> <<>>,
     exports_ok |-> TRUE]

Elf(buffer, entries) == Obj("elf", buffer, entries, <<>>)

Archive(members) == Obj("archive", <<>>, <<>>, members)

\* Object::Unknown
UnknownObject == Obj("unknown", <<>>, <<>>, <<>>)

\* a file Object::parse rejects
MalformedObject == Obj("malformed", <<>>, <<>>, <<>>)

\* a file std::fs::read cannot read
NoFile == Obj("unreadable", <<>>, <<>>, <<>>)

NoObject == Obj("", <<>>, <<>>, <<>>)

\* Result<BTreeMap, GoblinYaxError>
ParsedOk(funcs) == [kind |-> "Ok", funcs |-> funcs]

ParsedErr(kind) == [kind |-> kind, funcs |-> <<>>]

NotParsed == [kind |-> "running", funcs |-> <<>>]

\* BTreeMap::extend keeping the entries the map already has
ExtendKeepFirst(result, map) == BTreeCollect(map \o result)

\* result.extend(map): the entries of map replace those of equal key
Extend(result, map) == BTreeCollect(result \o map)

\* PushBlock numbering the blocks from 1
PushBlockFromOne(blocks, instructions, terminator) ==
    Append(blocks, [id |-> Len(blocks) + 1, instructions |-> instructions,
                    terminator |-> terminator])

\* blocks.push(GoblinYaxBlock { id, instructions, terminator })
PushBlock(blocks, instructions, terminator) ==
    Append(blocks, [id |-> Len(blocks), instructions |-> instructions,
                    terminator |-> terminator])

\* Symbol ranges explored for a buffer of n bytes: the whole buffer and
\* the buffer without its first byte
Ranges(n) == {<<0, n>>, <<1, n>>}

\* Symbols explored for a buffer of n bytes: named or not, over the ranges
\* above, and one symbol whose range runs past the end of the buffer
Entries(n) ==
    {Entry(nm, r[1], r[2]) : nm \in {NoName, "f", "g"}, r \in Ranges(n)}
    \cup {Entry("g", 0, n + 1)}

\* Symbol tables explored for a buffer of n bytes
EntryTables(n) == SeqsUpTo(Entries(n), MaxSyms)

ElfObjects ==
    UNION {{Elf(buffer, entries) : entries \in EntryTables(Len(buffer))} :
              buffer \in SeqsUpTo(Bytes, MaxBytes)}

\* Members of the archives explored: one symbol over a short body, and a
\* member of no recognised format
MemberObjects ==
    {Elf(buffer, <<Entry(nm, 0, Len(buffer))>>) :
        buffer \in {<<"ret">>, <<"nop", "ret">>, <<"bad">>},
        nm \in {"f", "g"}}
    \cup {UnknownObject}

Archives == {Archive(ms) : ms \in SeqsUpTo(MemberObjects, MaxMembers)}

\* Option::None of a file offset
NoOffset == -1

\* Option::None of Iterator::min
NoMin == [some |-> FALSE, value |-> 0]

\* the greatest element in place of the least
IterMax(S) ==
    IF S = {} THEN NoMin
    ELSE [some |-> TRUE, value |-> CHOOSE x \in S : \A y \in S : y <= x]

\* Iterator::min
IterMin(S) ==
    IF S = {} THEN NoMin
    ELSE [some |-> TRUE, value |-> CHOOSE x \in S : \A y \in S : x <= y]

\* An export of a PE: name and file offset, each possibly absent
Export(name, offset) == [name |-> name, offset |-> offset]

Pe(buffer, exports) ==
    [Obj("pe", buffer, <<>>, <<>>) EXCEPT !.symbols = exports]

\* pe.exports.iter().filter_map(...): the (name, start, end) of the exports
\* that have a name, an offset and an export of greater offset
PeEntries(exports) ==
    LET previous_symbol(export) ==
            IterMin({exports[k].offset : k \in
                       {k \in 1..Len(exports) :
                           /\ exports[k].offset # NoOffset
                           /\ exports[k].offset > export.offset}})
        keep(export) ==
            /\ export.name # NoName
            /\ export.offset # NoOffset
            /\ previous_symbol(export).some
        kept == SelectSeq(exports, keep)
    IN [k \in 1..Len(kept) |->
           Entry(kept[k].name, kept[k].offset,
                 previous_symbol(kept[k]).value)]

\* n_sect of a symbol that lies in no section
NO_SECT == 0

S_ATTR_PURE_INSTRUCTIONS == "PURE_INSTRUCTIONS"

S_ATTR_SOME_INSTRUCTIONS == "SOME_INSTRUCTIONS"

\* A segment of a Mach-O: its file offset, the number of sections its load
\* command declares, whether segment.sections() can read them, and the
\* flags of each section
Segment(fileoff, nsects, readable, sections) ==
    [fileoff |-> fileoff, nsects |-> nsects, readable |-> readable,
     sections |-> sections]

\* An item of mach.symbols(): Ok((name, nlist)), or Err
Nlist(name, n_sect, n_value) ==
    [err |-> FALSE, name |-> name, n_sect |-> n_sect, n_value |-> n_value]

BadSymbol == [err |-> TRUE, name |-> NoName, n_sect |-> 0, n_value |-> 0]

\* for segment in &mach.segments { ... }: section is the 0-based index
\* still to walk; skip is the return None of the closure, fileoff the
\* offset the loop leaves (0 when no segment holds the section)
RECURSIVE FindSection(_, _)
FindSection(segments, section) ==
    IF segments = <<>> THEN [skip |-> FALSE, fileoff |-> 0]
    ELSE LET segment == Head(segments)
         IN IF section < segment.nsects
            THEN IF ~segment.readable
                 THEN [skip |-> TRUE, fileoff |-> 0]
                 ELSE IF /\ S_ATTR_PURE_INSTRUCTIONS
                               \notin segment.sections[section + 1]
                         /\ S_ATTR_SOME_INSTRUCTIONS
                               \notin segment.sections[section + 1]
                 THEN [skip |-> TRUE, fileoff |-> 0]
                 ELSE [skip |-> FALSE, fileoff |-> segment.fileoff]
            ELSE FindSection(Tail(segments), section - segment.nsects)

\* mach.symbols().filter_map(...): the (name, start, end) of the symbols
\* kept, in symbol order
MachEntries(symbols, segments) ==
    LET found(list) == FindSection(segments, list.n_sect - 1)
        previous_symbol(list) ==
            IterMin({symbols[k].n_value : k \in
                       {k \in 1..Len(symbols) :
                           /\ ~symbols[k].err
                           /\ symbols[k].n_sect = list.n_sect
                           /\ symbols[k].n_value > list.n_value}})
        keep(list) ==
            /\ ~list.err
            /\ list.n_sect # NO_SECT
            /\ ~found(list).skip
            /\ previous_symbol(list).some
        kept == SelectSeq(symbols, keep)
    IN [k \in 1..Len(kept) |->
           Entry(kept[k].name, found(kept[k]).fileoff + kept[k].n_value,
                 found(kept[k]).fileoff + previous_symbol(kept[k]).value)]

\* Mach::Binary: symbols, segments and the export trie as (name, offset,
\* offset + size)
MachO(buffer, symbols, segments, exports) ==
    [Obj("mach", buffer, exports, <<>>)
        EXCEPT !.symbols = symbols, !.segments = segments]

\* An architecture of a fat Mach-O: its cputype and what MachO::parse makes
\* of the bytes at its offset
FatArch(cputype, mach) == [err |-> FALSE, cputype |-> cputype, mach |-> mach]

\* an architecture entry iter_arches cannot read
BadArch == [err |-> TRUE, cputype |-> 0, mach |-> NoObject]

\* Mach::Fat
Fat(buffer, arches) == Obj("fat", buffer, <<>>, arches)

\* Option::None of CPU_TYPE
NoCpuType == -1

\* MachArch::CPU_TYPE
CpuType(P) ==
    CASE P = "avr" -> NoCpuType
      [] P = "arm32" -> 12
      [] P = "arm64" -> 16777228
      [] P = "x86_32" -> 16777223
      [] OTHER -> NoCpuType

\* fat.find_cputype(cpu_type): the first architecture of that cputype;
\* an unreadable entry met before it is an error
RECURSIVE FindCputype(_, _)
FindCputype(arches, cpu_type) ==
    IF arches = <<>> THEN [err |-> "Fat", mach |-> NoObject]
    ELSE IF Head(arches).err THEN [err |-> "Goblin", mach |-> NoObject]
    ELSE IF Head(arches).cputype = cpu_type
    THEN IF Head(arches).mach.kind = "mach"
         THEN [err |-> "", mach |-> Head(arches).mach]
         ELSE [err |-> "Goblin", mach |-> NoObject]
    ELSE FindCputype(Tail(arches), cpu_type)

\* let mach = match mach { Mach::Fat(fat) => ..., Mach::Binary(bin) => bin }
ThinOf(P, mach) ==
    IF mach.kind = "mach" THEN [err |-> "", mach |-> mach]
    ELSE IF CpuType(P) = NoCpuType THEN [err |-> "Fat", mach |-> NoObject]
    ELSE FindCputype(mach.members, CpuType(P))

\* most exports of one PE
MaxExports == 3

\* Exports explored: two names over three offsets, an export without name
\* and one without offset
Exports ==
    {Export("f", 0), Export("f", 1), Export("g", 1), Export("g", 2),
     Export(NoName, 2), Export("g", NoOffset)}

PeObjects ==
    {Pe(buffer, exports) :
        buffer \in {<<"nop", "ret", "nop">>, <<"ldi", "nop", "ret">>},
        exports \in SeqsUpTo(Exports, MaxExports)}

\* Segment tables explored: one code section at offset 0; a data section
\* then a code section at offset 1; a segment whose sections cannot be read
SegmentTables ==
    {<<Segment(0, 1, TRUE, <<{S_ATTR_PURE_INSTRUCTIONS}>>)>>,
     <<Segment(0, 1, TRUE, <<{}>>),
       Segment(1, 1, TRUE, <<{S_ATTR_SOME_INSTRUCTIONS}>>)>>,
     <<Segment(0, 1, FALSE, <<>>)>>}

\* Symbols explored: f at value 0 and g at value 1, in no section and in
\* sections 1 to 3, and a symbol the table cannot produce
Symbols ==
    {Nlist("f", n_sect, 0) : n_sect \in 0..3}
    \cup {Nlist("g", n_sect, 1) : n_sect \in 0..3}
    \cup {BadSymbol}

MachObjects ==
    {MachO(<<"nop", "ret", "nop">>, symbols, segments, exports) :
        symbols \in SeqsUpTo(Symbols, MaxSyms),
        segments \in SegmentTables,
        exports \in {<<>>, <<Entry("h", 0, 2)>>}}
    \cup {[MachO(<<"ret">>, <<>>, <<>>, <<>>) EXCEPT !.exports_ok = FALSE]}

\* Fat files explored: over the architectures arm64, x86_32 and an
\* unreadable entry
FatObjects ==
    LET thin == MachO(<<"ret">>, <<>>, <<>>, <<Entry("h", 0, 1)>>)
    IN {Fat(<<"ret">>, arches) :
           arches \in SeqsUpTo({FatArch(CpuType("arm64"), thin),
                                FatArch(CpuType("x86_32"), thin),
                                FatArch(CpuType("arm64"), MalformedObject),
                                BadArch}, 2)}

\* The files handed to parse
Objects ==
    ElfObjects \cup Archives \cup PeObjects \cup MachObjects
    \cup FatObjects \cup {UnknownObject, MalformedObject, NoFile}

\* ------------------------------------------------------------------------
\* Instructions handed to score
\* ------------------------------------------------------------------------
\* llvm_ir::Instruction variants the match of score has no arm for
NoArm == {"Mul", "ExtractValue", "InsertValue"}

\* Values explored for a field score compares
FieldValues == {0, 1}

\* Body instructions explored: every opcode, with every value of the fields
\* score compares for it
ScoredInsts(P) ==
    IF P = "llvm"
    THEN {Inst(op, 0, 0) :
             op \in IntArith \cup Bitwise \cup FloatArith \cup AlwaysEqual
                    \cup NoArm}
         \cup {Inst(op, f, 0) : op \in FieldCompared, f \in FieldValues}
         \cup {Inst("AtomicRMW", f, g) : f \in FieldValues, g \in FieldValues}
    ELSE BodyInsts(P) \cup FlowInsts(P)

\* Terminators explored
ScoredTerminators(P) ==
    IF P = "llvm" THEN {Inst(op, 0, 0) : op \in LlvmTerminators}
    ELSE Terminators(P)

\* ------------------------------------------------------------------------
\* Front ends: format tags, arguments, exit codes
\* ------------------------------------------------------------------------
\* The instantiation a format tag selects: the ingester and, for bitcode,
\* the parse option (true: textual IR)
Target(ingester, options) == [ingester |-> ingester, options |-> options]

\* the fallthrough arm of the match on the tag
BadFormat == Target("BadFormat", FALSE)

\* the match on format of make_diff (the Python binding)
MakeDiffFormat(tag) ==
    CASE tag \in {"ll", "ll-ir", "llir"} -> Target("llvm", TRUE)
      [] tag \in {"ll-bc", "llbc"} -> Target("llvm", FALSE)
      [] tag \in {"arm64", "aarch64", "armv8"} -> Target("arm64", FALSE)
      [] tag \in {"arm32", "aarch32", "armv7"} -> Target("arm64", FALSE)
      [] tag = "avr" -> Target("avr", FALSE)
      [] tag \in {"x86", "x86-32", "x86_32", "i386", "i686"} ->
             Target("x86_32", FALSE)
      [] tag \in {"x64", "x86-64", "x86_64"} -> Target("x86_64", FALSE)
      [] OTHER -> BadFormat

\* the match on args.format of main (the command line)
MainFormat(tag) ==
    CASE tag \in {"ll-bc", "llbc"} -> Target("llvm", FALSE)
      [] tag \in {"arm64", "aarch64", "armv8"} -> Target("arm64", FALSE)
      [] tag \in {"arm32", "aarch32", "armv7"} -> Target("arm64", FALSE)
      [] tag = "avr" -> Target("avr", FALSE)
      [] tag \in {"x86", "x86-32", "x86_32", "i386", "i686"} ->
             Target("x86_32", FALSE)
      [] tag \in {"x64", "x86-64", "x86_64"} -> Target("x86_64", FALSE)
      [] OTHER -> BadFormat

\* The front ends that dispatch on a format tag
FrontEnds == {"make_diff", "main"}

FormatOf(front_end, tag) ==
    IF front_end = "make_diff" THEN MakeDiffFormat(tag) ELSE MainFormat(tag)

\* Tags given to the front ends: every tag some arm names, the same in
\* other letter case, and other strings
Tags ==
    {"ll", "ll-ir", "llir", "ll-bc", "llbc", "arm64", "aarch64", "armv8",
     "arm32", "aarch32", "armv7", "avr", "x86", "x86-32", "x86_32", "i386",
     "i686", "x64", "x86-64", "x86_64"}
    \cup {"LL", "LL-IR", "LLIR", "LL-BC", "LLBC", "ARM64", "AARCH64", "ARMV8",
          "ARM32", "AARCH32", "ARMV7", "AVR", "X86", "X86-32", "X86_32",
          "I386", "I686", "X64", "X86-64", "X86_64", "Avr", "AArch64"}
    \cup {"", "elf", "ll_bc", "llvm", "bc", "arm", "armv6", "thumb", "x86-16",
          "amd64", "i486", "mips", "riscv", "wasm", " avr", "avr "}

\* Option::None of a command-line argument
NoArg == "<none>"

\* let function_name = match (args.name, args.right_name) { ... }: the
\* selector, or none when only the right-hand name is supplied
FunctionNameOf(arg_name, arg_right_name) ==
    IF arg_name # NoArg /\ arg_right_name # NoArg
    THEN [some |-> TRUE, sel |-> Different(arg_name, arg_right_name)]
    ELSE IF arg_name # NoArg
    THEN [some |-> TRUE, sel |-> Same(arg_name)]
    ELSE IF arg_right_name = NoArg
    THEN [some |-> TRUE, sel |-> Unspecified]
    ELSE [some |-> FALSE, sel |-> Unspecified]

\* Key events the browser reads; "other" is any other key or event
KeyCodes == {"Esc", "x", "q", "Right", "Left", "Down", "Up", "PageDown",
             "PageUp", "other"}

\* Tags the command line is run with
CliTags == {"avr", "llbc", "arm32", "elf"}

\* Files the command line is run on: unreadable, without functions, with
\* f ending in either flow-control instruction, with f and g
CliFiles(P) ==
    LET t1 == CHOOSE t \in FlowInsts(P) : t.op \in {"ret", "Ret"}
        t2 == CHOOSE t \in FlowInsts(P) : t # t1
        blk(t) == <<[id |-> 0, instructions |-> <<>>, terminator |-> t]>>
    IN {BadFile, File(<<>>), File(<<Func("f", blk(t1))>>),
        File(<<Func("f", blk(t2))>>),
        File(<<Func("f", blk(t1)), Func("g", blk(t1))>>)}

\* ------------------------------------------------------------------------
\* State
\* ------------------------------------------------------------------------
VARIABLES
    P,                  \* the ingester compute_diff is instantiated with
    leftFile,           \* content of the left file
    rightFile,          \* content of the right file
    name,               \* the FunctionName selector
    pc,                 \* position of compute_diff
    left,               \* parsed left program
    right,              \* parsed right program
    pairs,              \* function pairs still to diff
    has_diff,
    diffs,              \* finished function diffs
    table,              \* rows of the function pair in progress
    used_right_blocks,
    left_idx,           \* position of the left block in progress (1-based)
    best_block,
    result              \* what compute_diff returned

\* the state of GoblinYax::parse
VARIABLES
    object,             \* the file parse was given
    side,               \* which argument of compute_diff the file is
    ipc,                \* position of parse
    current,            \* the object extract is working on
    nested,             \* extract is working on a member of an archive
    members,            \* members of the archive still to extract
    archive_result,     \* result of the Archive arm
    buffer,
    iter,               \* entries convert has not reached yet
    collected,          \* functions convert has finished, in iterator order
    fn_name,
    start,
    end,
    addr,
    blocks,
    instructions,
    parsed              \* what parse returned

ingest == <<object, side, ipc, current, nested, members, archive_result,
            buffer, iter, collected, fn_name, start, end, addr, blocks,
            instructions, parsed>>

\* the state of a call of score
VARIABLES
    self,               \* the receiver of score
    other,              \* the argument of score
    scored_as,          \* the Instruction impl called: body or terminator
    scored              \* what score returned

scoring == <<self, other, scored_as, scored>>

\* the state of a front end
VARIABLES
    format,             \* the format tag
    front,              \* the front end given the tag
    dispatched,         \* what the match on the tag selected
    args_name,          \* --name
    args_right_name,    \* --right-name
    terminal_ok,        \* whether the terminal can be initialised
    cpc,                \* position of main
    active_tab,
    exit_code

cli == <<format, front, dispatched, args_name, args_right_name, terminal_ok,
         cpc, active_tab, exit_code>>

compute == <<P, leftFile, rightFile, name, pc, left, right, pairs, has_diff,
             diffs, table, used_right_blocks, left_idx, best_block, result>>

vars == <<compute, ingest, scoring, cli>>

inputs == <<P, leftFile, rightFile, name>>

InitRest ==
    /\ pc = "parse_left"
    /\ left = <<>>
    /\ right = <<>>
    /\ pairs = <<>>
    /\ has_diff = FALSE
    /\ diffs = <<>>
    /\ table = <<>>
    /\ used_right_blocks = {}
    /\ left_idx = 0
    /\ best_block = NoBest
    /\ result = NoResult

\* one function per file, every pair of bodies in the bounds
InitDiff ==
    /\ P \in {"avr", "llvm"}
    /\ leftFile \in DiffFiles(P)
    /\ rightFile \in DiffFiles(P)
    /\ name = Same("f")
    /\ InitRest

\* small bodies, every combination of files and selector
InitSelect ==
    /\ P \in Ingesters
    /\ leftFile \in SelectFiles(P)
    /\ rightFile \in SelectFiles(P)
    /\ name \in Selectors
    /\ InitRest

\* a mangled symbol on each side, selected by symbol or by demangled name
InitMangled ==
    /\ P \in Ingesters
    /\ leftFile \in SymbolFiles(P, MangledLeft)
    /\ rightFile \in SymbolFiles(P, MangledRight)
    /\ name \in {Different(MangledLeft, MangledRight),
                 Different(Demangle(MangledLeft), Demangle(MangledRight))}
    /\ InitRest

\* parse at rest
IngestRest ==
    /\ current = NoObject
    /\ nested = FALSE
    /\ members = <<>>
    /\ archive_result = <<>>
    /\ buffer = <<>>
    /\ iter = <<>>
    /\ collected = <<>>
    /\ fn_name = ""
    /\ start = 0
    /\ end = 0
    /\ addr = 0
    /\ blocks = <<>>
    /\ instructions = <<>>
    /\ parsed = NotParsed

\* no file is followed through parse
IngestIdle ==
    /\ object = NoObject
    /\ side = ""
    /\ ipc = "idle"
    /\ IngestRest

\* Option::None of a score
NotScored == [some |-> FALSE, value |-> 0]

Scored(value) == [some |-> TRUE, value |-> value]

\* no call of score is followed
ScoringIdle ==
    /\ self = NoneInst
    /\ other = NoneInst
    /\ scored_as = ""
    /\ scored = NotScored

\* Option::None of a dispatch
NotDispatched == [some |-> FALSE, target |-> BadFormat]

Dispatched(target) == [some |-> TRUE, target |-> target]

\* no front end is followed
CliIdle ==
    /\ format = ""
    /\ front = ""
    /\ dispatched = NotDispatched
    /\ args_name = NoArg
    /\ args_right_name = NoArg
    /\ terminal_ok = TRUE
    /\ cpc = "idle"
    /\ active_tab = 0
    /\ exit_code = -1

Init ==
    /\ InitDiff \/ InitSelect \/ InitMangled
    /\ IngestIdle
    /\ ScoringIdle
    /\ CliIdle

\* one dispatch on a format tag, by either front end
InitFormat ==
    /\ P = ""
    /\ leftFile = File(<<>>)
    /\ rightFile = File(<<>>)
    /\ name = Unspecified
    /\ InitRest
    /\ IngestIdle
    /\ ScoringIdle
    /\ format \in Tags
    /\ front \in FrontEnds
    /\ dispatched = NotDispatched
    /\ args_name = NoArg
    /\ args_right_name = NoArg
    /\ terminal_ok = TRUE
    /\ cpc = "dispatch"
    /\ active_tab = 0
    /\ exit_code = -1

\* one run of the command line
InitCli ==
    /\ format \in CliTags
    /\ front = "main"
    /\ dispatched = NotDispatched
    /\ args_name \in {NoArg, "f"}
    /\ args_right_name \in {NoArg, "f", "g"}
    /\ terminal_ok \in BOOLEAN
    /\ cpc = "main"
    /\ active_tab = 0
    /\ exit_code = -1
    /\ P = ""
    /\ LET files == IF MainFormat(format) = BadFormat THEN {File(<<>>)}
                    ELSE CliFiles(MainFormat(format).ingester)
       IN leftFile \in files /\ rightFile \in files
    /\ name = Unspecified
    /\ pc = "main"
    /\ left = <<>>
    /\ right = <<>>
    /\ pairs = <<>>
    /\ has_diff = FALSE
    /\ diffs = <<>>
    /\ table = <<>>
    /\ used_right_blocks = {}
    /\ left_idx = 0
    /\ best_block = NoBest
    /\ result = NoResult
    /\ IngestIdle
    /\ ScoringIdle

\* one call of score, on every pair of instructions or of terminators
InitScore ==
    /\ P \in Ingesters
    /\ leftFile = File(<<>>)
    /\ rightFile = File(<<>>)
    /\ name = Unspecified
    /\ InitRest
    /\ IngestIdle
    /\ scored_as \in {"instruction", "terminator"}
    /\ self \in (IF scored_as = "instruction" THEN ScoredInsts(P)
                 ELSE ScoredTerminators(P))
    /\ other \in (IF scored_as = "instruction" THEN ScoredInsts(P)
                  ELSE ScoredTerminators(P))
    /\ scored = NotScored
    /\ CliIdle

\* one machine-code file followed through parse, as the left or the right
\* argument of compute_diff
InitIngest ==
    /\ object \in Objects
    /\ P \in (IF object.kind = "fat" THEN {"avr", "arm64"} ELSE {"avr"})
    /\ leftFile = File(<<>>)
    /\ rightFile = File(<<>>)
    /\ name = Unspecified
    /\ InitRest
    /\ side \in {"Left", "Right"}
    /\ ipc = "read"
    /\ IngestRest
    /\ ScoringIdle
    /\ CliIdle

\* ------------------------------------------------------------------------
\* compute_diff, step by step
\* ------------------------------------------------------------------------
\* let mut has_diff = ...
HasDiffInit == TRUE

Return(r) ==
    /\ result' = r
    /\ pc' = "done"

\* ParseLeft going on to the right file when the left file fails
ParseLeftDeferred ==
    /\ pc = "parse_left"
    /\ left' = (IF leftFile.ok THEN Parse(P, leftFile) ELSE <<>>)
    /\ pc' = "parse_right"
    /\ UNCHANGED <<ingest, scoring, cli, inputs, right, pairs, has_diff, diffs,
                   table, used_right_blocks, left_idx, best_block, result>>

\* let left = P::parse(left, options).map_err(...)?
ParseLeft ==
    /\ pc = "parse_left"
    /\ IF leftFile.ok
       THEN /\ left' = Parse(P, leftFile)
            /\ pc' = "parse_right"
            /\ UNCHANGED result
       ELSE /\ Return(Err("ParseError", "Left"))
            /\ UNCHANGED left
    /\ UNCHANGED <<ingest, scoring, cli, inputs, right, pairs, has_diff, diffs,
                   table, used_right_blocks, left_idx, best_block>>

\* let right = P::parse(right, options).map_err(...)?
ParseRight ==
    /\ pc = "parse_right"
    /\ IF rightFile.ok
       THEN /\ right' = Parse(P, rightFile)
            /\ pc' = "resolve"
            /\ UNCHANGED result
       ELSE /\ Return(Err("ParseError", "Right"))
            /\ UNCHANGED right
    /\ UNCHANGED <<ingest, scoring, cli, inputs, left, pairs, has_diff, diffs,
                   table, used_right_blocks, left_idx, best_block>>

\* let pairs = match name { ... }; let mut has_diff; let mut diffs
Resolve ==
    /\ pc = "resolve"
    /\ LET r == ResolvePairs(name, left, right)
       IN IF r.err # NoResult
          THEN /\ Return(r.err)
               /\ UNCHANGED <<pairs, has_diff>>
          ELSE /\ pairs' = r.pairs
               /\ has_diff' = HasDiffInit
               /\ pc' = "pairs"
               /\ UNCHANGED result
    /\ UNCHANGED <<ingest, scoring, cli, inputs, left, right, diffs, table,
                   used_right_blocks, left_idx, best_block>>

\* for (left_func, right_func) in pairs { let mut table; let mut used_right_blocks
BeginPair ==
    /\ pc = "pairs"
    /\ pairs # <<>>
    /\ table' = <<>>
    /\ used_right_blocks' = {}
    /\ left_idx' = 1
    /\ best_block' = NoBest
    /\ pc' = IF Len(pairs[1][1].blocks) = 0 THEN "tail" ELSE "block"
    /\ UNCHANGED <<ingest, scoring, cli, inputs, left, right, pairs, has_diff,
                   diffs, result>>

\* for left_block in left_func.blocks() { the loop over the right blocks
PairBlock ==
    /\ pc = "block"
    /\ LET left_block == pairs[1][1].blocks[left_idx]
           found == FindBest(P, left_block, pairs[1][2].blocks)
       IN IF found.panicked
          THEN /\ Return(Err("panic", "traceback"))
               /\ UNCHANGED best_block
          ELSE /\ best_block' = found.best
               /\ pc' = "emit"
               /\ UNCHANGED result
    /\ UNCHANGED <<ingest, scoring, cli, inputs, left, right, pairs, has_diff,
                   diffs, table, used_right_blocks, left_idx>>

AfterBlock ==
    /\ left_idx' = left_idx + 1
    /\ pc' = IF left_idx < Len(pairs[1][1].blocks) THEN "block" ELSE "tail"

\* if let Some(...) = best_block { ... }
EmitPaired ==
    /\ pc = "emit"
    /\ best_block.some
    /\ LET left_block == pairs[1][1].blocks[left_idx]
           right_block == pairs[1][2].blocks[best_block.right_id + 1]
           e == PairedRows(P, left_block, right_block, best_block)
       IN IF e.panicked
          THEN /\ Return(Err("panic", "get"))
               /\ UNCHANGED <<used_right_blocks, table, has_diff, left_idx>>
          ELSE /\ used_right_blocks' =
                      used_right_blocks \cup {best_block.right_id}
               /\ table' = table \o e.rows
               /\ has_diff' = (has_diff \/ e.diff)
               /\ AfterBlock
               /\ UNCHANGED result
    /\ UNCHANGED <<ingest, scoring, cli, inputs, left, right, pairs, diffs,
                   best_block>>

\* ... else { the orphaned left block }
EmitOrphan ==
    /\ pc = "emit"
    /\ ~best_block.some
    /\ has_diff' = TRUE
    /\ table' = table \o OrphanRows(P, pairs[1][1].blocks[left_idx])
    /\ AfterBlock
    /\ UNCHANGED <<ingest, scoring, cli, inputs, left, right, pairs, diffs,
                   used_right_blocks, best_block, result>>

\* the loop over the unused right blocks, then diffs.push(D::function(...))
TailPass ==
    /\ pc = "tail"
    /\ LET rows == TailRows(P, pairs[1][2].blocks, used_right_blocks)
       IN /\ has_diff' = (has_diff \/ rows # <<>>)
          /\ table' = table \o rows
          /\ diffs' = Append(diffs, FunctionDiff(pairs[1][1].name,
                                                 pairs[1][2].name, table'))
    /\ pairs' = Tail(pairs)
    /\ pc' = "pairs"
    /\ UNCHANGED <<ingest, scoring, cli, inputs, left, right,
                   used_right_blocks, left_idx, best_block, result>>

\* Ok((has_diff, diffs))
Finish ==
    /\ pc = "pairs"
    /\ pairs = <<>>
    /\ Return(Ok(has_diff))
    /\ UNCHANGED <<ingest, scoring, cli, inputs, left, right, pairs, has_diff,
                   diffs, table, used_right_blocks, left_idx, best_block>>

Next ==
    \/ ParseLeft
    \/ ParseRight
    \/ Resolve
    \/ BeginPair
    \/ PairBlock
    \/ EmitPaired
    \/ EmitOrphan
    \/ TailPass
    \/ Finish

Spec == Init /\ [][Next]_vars

\* ------------------------------------------------------------------------
\* GoblinYax::parse, step by step
\* ------------------------------------------------------------------------
\* ExtractReturn going on with the next member when a member fails
ExtractReturnSkipFailed(r) ==
    IF nested
    THEN /\ archive_result' = Extend(archive_result, r.funcs)
         /\ nested' = FALSE
         /\ ipc' = "archive"
         /\ UNCHANGED parsed
    ELSE /\ parsed' = r
         /\ ipc' = "parsed"
         /\ UNCHANGED <<archive_result, nested>>

\* extract returns r: to parse, or to the Archive arm that called it
ExtractReturn(r) ==
    IF nested /\ r.kind = "Ok"
    THEN /\ archive_result' = Extend(archive_result, r.funcs)
         /\ nested' = FALSE
         /\ ipc' = "archive"
         /\ UNCHANGED parsed
    ELSE /\ parsed' = r
         /\ ipc' = "parsed"
         /\ UNCHANGED <<archive_result, nested>>

\* let buffer = std::fs::read(file).map_err(GoblinYaxError::Io)?
ReadFile ==
    /\ ipc = "read"
    /\ IF object = NoFile
       THEN /\ parsed' = ParsedErr("Io")
            /\ ipc' = "parsed"
            /\ UNCHANGED current
       ELSE /\ current' = object
            /\ ipc' = "extract"
            /\ UNCHANGED parsed
    /\ UNCHANGED <<compute, scoring, cli, object, side, nested, members,
                   archive_result, buffer, iter, collected, fn_name, start,
                   end, addr, blocks, instructions>>

\* match Object::parse(&buffer).map_err(GoblinYaxError::Goblin)? { ... }
Extract ==
    /\ ipc = "extract"
    /\ CASE current.kind = "elf" ->
              /\ buffer' = current.buffer
              /\ iter' = current.entries
              /\ collected' = <<>>
              /\ ipc' = "convert"
              /\ UNCHANGED <<members, archive_result, nested, parsed>>
         [] current.kind = "pe" ->
              /\ buffer' = current.buffer
              /\ iter' = PeEntries(current.symbols)
              /\ collected' = <<>>
              /\ ipc' = "convert"
              /\ UNCHANGED <<members, archive_result, nested, parsed>>
         [] current.kind \in {"mach", "fat"} ->
              LET thin == ThinOf(P, current)
              IN IF thin.err # ""
                 THEN /\ ExtractReturn(ParsedErr(thin.err))
                      /\ UNCHANGED <<buffer, iter, collected, members>>
                 ELSE IF ~thin.mach.exports_ok
                 THEN /\ ExtractReturn(ParsedErr("Goblin"))
                      /\ UNCHANGED <<buffer, iter, collected, members>>
                 ELSE /\ buffer' = current.buffer
                      /\ iter' = MachEntries(thin.mach.symbols,
                                             thin.mach.segments)
                                 \o thin.mach.entries
                      /\ collected' = <<>>
                      /\ ipc' = "convert"
                      /\ UNCHANGED <<members, archive_result, nested,
                                     parsed>>
         [] current.kind = "archive" ->
              /\ members' = current.members
              /\ archive_result' = <<>>
              /\ ipc' = "archive"
              /\ UNCHANGED <<buffer, iter, collected, nested, parsed>>
         [] current.kind = "unknown" ->
              /\ ExtractReturn(ParsedErr("Unrecognized"))
              /\ UNCHANGED <<buffer, iter, collected, members>>
         [] OTHER ->
              /\ ExtractReturn(ParsedErr("Goblin"))
              /\ UNCHANGED <<buffer, iter, collected, members>>
    /\ UNCHANGED <<compute, scoring, cli, object, side, current, fn_name,
                   start, end, addr, blocks, instructions>>

\* for (_, member, _) in ar.summarize() { result.extend(extract(member)?) }
ArchiveMember ==
    /\ ipc = "archive"
    /\ IF members = <<>>
       THEN /\ parsed' = ParsedOk(archive_result)
            /\ ipc' = "parsed"
            /\ UNCHANGED <<current, nested, members>>
       ELSE /\ current' = Head(members)
            /\ members' = Tail(members)
            /\ nested' = TRUE
            /\ ipc' = "extract"
            /\ UNCHANGED parsed
    /\ UNCHANGED <<compute, scoring, cli, object, side, archive_result, buffer,
                   iter, collected, fn_name, start, end, addr, blocks,
                   instructions>>

\* iter.map(|(name, start, end)| { let name = demangle(name.ok_or(NoSym)?)
\* ... }).collect(): the next item of the iterator, or the end of it
ConvertEntry ==
    /\ ipc = "convert"
    /\ IF iter = <<>>
       THEN /\ ExtractReturn(ParsedOk(BTreeCollect(collected)))
            /\ UNCHANGED <<iter, fn_name, start, end, addr, blocks,
                           instructions>>
       ELSE IF Head(iter).name = NoName
       THEN /\ ExtractReturn(ParsedErr("NoSym"))
            /\ UNCHANGED <<iter, fn_name, start, end, addr, blocks,
                           instructions>>
       ELSE /\ fn_name' = Demangle(Head(iter).name)
            /\ start' = Head(iter).start
            /\ end' = Head(iter).end
            /\ addr' = 0
            /\ blocks' = <<>>
            /\ instructions' = <<>>
            /\ iter' = Tail(iter)
            /\ ipc' = "decode"
            /\ UNCHANGED <<archive_result, nested, parsed>>
    /\ UNCHANGED <<compute, scoring, cli, object, side, current, members,
                   buffer, collected>>

\* the bytes of the function not decoded yet
Rest == NonEmpty(SliceGet(buffer, start + addr, end))

\* while let Some(rest) = ... { match decoder.decode(&mut reader) { ... } }
DecodeStep ==
    /\ ipc = "decode"
    /\ Rest.some
    /\ LET d == Decode(Rest.bytes)
       IN IF d.err
          THEN /\ ExtractReturn(ParsedErr("Yax"))
               /\ UNCHANGED <<addr, blocks, instructions>>
          ELSE /\ addr' = addr + d.len
               /\ IF IsFlowControl(P, d.inst)
                  THEN /\ blocks' = PushBlock(blocks, instructions, d.inst)
                       /\ instructions' = <<>>
                  ELSE /\ instructions' = Append(instructions, d.inst)
                       /\ UNCHANGED blocks
               /\ UNCHANGED <<ipc, archive_result, nested, parsed>>
    /\ UNCHANGED <<compute, scoring, cli, object, side, current, members,
                   buffer, iter, collected, fn_name, start, end>>

\* if !instructions.is_empty() { blocks.push(...) }; Ok((name, function))
EndFunction ==
    /\ ipc = "decode"
    /\ ~Rest.some
    /\ LET all == IF instructions # <<>>
                  THEN PushBlock(blocks, instructions, NoneInst)
                  ELSE blocks
       IN collected' = Append(collected, Func(fn_name, all))
    /\ ipc' = "convert"
    /\ UNCHANGED <<compute, scoring, cli, object, side, current, nested,
                   members, archive_result, buffer, iter, fn_name, start, end,
                   addr, blocks, instructions, parsed>>

\* compute_diff: let left = P::parse(left, options).map_err(|e|
\* DiffError::ParseError(Side::Left, e))?, and the same on the right
ParseReturn ==
    /\ ipc = "parsed"
    /\ ipc' = "returned"
    /\ IF parsed.kind # "Ok"
       THEN /\ Return(Err("ParseError", side))
            /\ UNCHANGED <<left, right>>
       ELSE IF side = "Left"
       THEN /\ left' = parsed.funcs
            /\ pc' = "parse_right"
            /\ UNCHANGED <<right, result>>
       ELSE /\ right' = parsed.funcs
            /\ pc' = "resolve"
            /\ UNCHANGED <<left, result>>
    /\ UNCHANGED <<inputs, pairs, has_diff, diffs, table, used_right_blocks,
                   left_idx, best_block>>
    /\ UNCHANGED <<scoring, cli, object, side, current, nested, members,
                   archive_result, buffer, iter, collected, fn_name, start,
                   end, addr, blocks, instructions, parsed>>

NextIngest ==
    \/ ReadFile
    \/ Extract
    \/ ArchiveMember
    \/ ConvertEntry
    \/ DecodeStep
    \/ EndFunction
    \/ ParseReturn

SpecIngest == InitIngest /\ [][NextIngest]_vars

\* ------------------------------------------------------------------------
\* score, one call
\* ------------------------------------------------------------------------
\* <P::Instruction as Instruction>::score(self, other)
ScoreInstruction ==
    /\ scored_as = "instruction"
    /\ ~scored.some
    /\ scored' = Scored(Score(P, self, other))
    /\ UNCHANGED <<compute, ingest, cli, self, other, scored_as>>

\* <P::Terminator as Instruction>::score(self, other)
ScoreTerminator ==
    /\ scored_as = "terminator"
    /\ ~scored.some
    /\ scored' = Scored(TermScore(P, self, other))
    /\ UNCHANGED <<compute, ingest, cli, self, other, scored_as>>

NextScore == ScoreInstruction \/ ScoreTerminator

SpecScore == InitScore /\ [][NextScore]_vars

\* ------------------------------------------------------------------------
\* The front ends
\* ------------------------------------------------------------------------
\* match format { ... } of make_diff, match args.format.as_str() { ... } of
\* main
Dispatch ==
    /\ cpc = "dispatch"
    /\ dispatched' = Dispatched(FormatOf(front, format))
    /\ cpc' = "dispatched"
    /\ UNCHANGED <<compute, ingest, scoring, format, front, args_name,
                   args_right_name, terminal_ok, active_tab, exit_code>>

NextFormat == Dispatch

SpecFormat == InitFormat /\ [][NextFormat]_vars

\* std::process::exit(code)
Exit(code) ==
    /\ exit_code' = code
    /\ cpc' = "exited"

\* main up to the call of the diff: the selector from the two name
\* arguments, then the match on the format tag
Main ==
    /\ cpc = "main"
    /\ LET function_name == FunctionNameOf(args_name, args_right_name)
           target == MainFormat(format)
       IN IF ~function_name.some
          THEN /\ Exit(4)
               /\ UNCHANGED <<P, name, pc, dispatched>>
          ELSE IF target = BadFormat
          THEN /\ Exit(2)
               /\ dispatched' = Dispatched(target)
               /\ UNCHANGED <<P, name, pc>>
          ELSE /\ P' = target.ingester
               /\ name' = function_name.sel
               /\ dispatched' = Dispatched(target)
               /\ pc' = "parse_left"
               /\ cpc' = "compute"
               /\ UNCHANGED exit_code
    /\ UNCHANGED <<ingest, scoring, leftFile, rightFile, left, right, pairs,
                   has_diff, diffs, table, used_right_blocks, left_idx,
                   best_block, result, format, front, args_name,
                   args_right_name, terminal_ok, active_tab>>

\* the match on what the diff returned, up to the start of the browser
Report ==
    /\ cpc = "compute"
    /\ pc = "done"
    /\ result.kind \in {"Ok", "NoMatch", "ParseError"}
    /\ IF result.kind # "Ok" THEN Exit(3) /\ UNCHANGED active_tab
       ELSE IF diffs = <<>> THEN Exit(0) /\ UNCHANGED active_tab
       ELSE IF ~terminal_ok THEN Exit(100) /\ UNCHANGED active_tab
       ELSE /\ active_tab' = 0
            /\ cpc' = "browse"
            /\ UNCHANGED exit_code
    /\ UNCHANGED <<compute, ingest, scoring, format, front, dispatched,
                   args_name, args_right_name, terminal_ok>>

\* Key with Right guarded by active_tab < diffs.len()
KeyPastLast(key) ==
    /\ cpc = "browse"
    /\ IF key \in {"Esc", "x", "q"}
       THEN /\ Exit(IF result.has_diff THEN 1 ELSE 0)
            /\ UNCHANGED active_tab
       ELSE /\ active_tab' =
                   IF key = "Right" /\ active_tab < Len(diffs)
                   THEN active_tab + 1
                   ELSE IF key = "Left" /\ active_tab > 0
                   THEN active_tab - 1
                   ELSE active_tab
            /\ UNCHANGED <<cpc, exit_code>>
    /\ UNCHANGED <<compute, ingest, scoring, format, front, dispatched,
                   args_name, args_right_name, terminal_ok>>

\* one turn of the browser loop on the key read (the selected row of the
\* table widget is not followed), and the exit code after the loop
Key(key) ==
    /\ cpc = "browse"
    /\ IF key \in {"Esc", "x", "q"}
       THEN /\ Exit(IF result.has_diff THEN 1 ELSE 0)
            /\ UNCHANGED active_tab
       ELSE /\ active_tab' =
                   IF key = "Right" /\ active_tab < Len(diffs) - 1
                   THEN active_tab + 1
                   ELSE IF key = "Left" /\ active_tab > 0
                   THEN active_tab - 1
                   ELSE active_tab
            /\ UNCHANGED <<cpc, exit_code>>
    /\ UNCHANGED <<compute, ingest, scoring, format, front, dispatched,
                   args_name, args_right_name, terminal_ok>>

NextCli ==
    \/ Main
    \/ Next
    \/ Report
    \/ \E key \in KeyCodes : Key(key)

SpecCli == InitCli /\ [][NextCli]_vars

\* ------------------------------------------------------------------------
\* Properties
\* ------------------------------------------------------------------------
\* every row of every finished function diff
AllRows == UNION {{d.rows[k] : k \in 1..Len(d.rows)} :
                     d \in {diffs[x] : x \in 1..Len(diffs)}}

IsGap(row) == row.kind = "row" /\ row.direction \in {GapLeft, GapRight}

IsInexact(row) == row.kind = "row" /\ row.direction = Align(FALSE)

\* a block header without a partner on the right
IsOrphanHeader(row) == row.kind = "block" /\ row.right = ""

\* the function pairs the selector resolved to, in order
AllPairs == ResolvePairs(name, left, right).pairs

\* the two files are the same and every selected function is compared with
\* an identical function
SelfDiff ==
    /\ leftFile = rightFile
    /\ \A k \in 1..Len(AllPairs) : AllPairs[k][1].blocks = AllPairs[k][2].blocks

\* C1: when a program is compared with itself, no row of the result is a
\* gap row and every Align row is exact.
C1_SelfDiffExact ==
    (result.kind = "Ok" /\ SelfDiff)
        => \A row \in AllRows : ~IsGap(row) /\ ~IsInexact(row)

\* C2: the flag returned by compute_diff is true exactly when the output has
\* an inexact Align row, a gap row or an orphaned block.
C2_HasDiffIffDifference ==
    result.kind = "Ok"
        => (result.has_diff <=>
               \E row \in AllRows :
                   IsGap(row) \/ IsInexact(row) \/ IsOrphanHeader(row))

\* the function pair in progress
LeftBlocks == pairs[1][1].blocks

RightBlocks == pairs[1][2].blocks

\* right positions (1-based) of positive pair score against a left block
Positive(left_block) ==
    {k \in 1..Len(RightBlocks) : PairScore(P, left_block, RightBlocks[k]) > 0}

\* right positions of greatest pair score against a left block
Greatest(left_block) ==
    {k \in 1..Len(RightBlocks) :
        \A k2 \in 1..Len(RightBlocks) :
            PairScore(P, left_block, RightBlocks[k2])
                <= PairScore(P, left_block, RightBlocks[k])}

Min(S) == CHOOSE x \in S : \A y \in S : x <= y

\* C3: a left block is paired with the lowest-index right block of greatest
\* pair score, taken over every right block (chosen before or not), when
\* that score is positive, and is orphaned exactly when no right block has a
\* positive pair score.
C3_BlockPairing ==
    pc = "emit" =>
        LET left_block == LeftBlocks[left_idx]
        IN IF Positive(left_block) = {}
           THEN ~best_block.some
           ELSE /\ best_block.some
                /\ best_block.right_id + 1 = Min(Greatest(left_block))
                /\ best_block.score =
                       PairScore(P, left_block,
                                 RightBlocks[best_block.right_id + 1])

\* C3 witness: the second left block takes the right block the first one
\* already took, although a later right block has the same pair score
C3_Witness ==
    /\ pc = "emit"
    /\ left_idx = 2
    /\ best_block.some
    /\ best_block.right_id \in used_right_blocks
    /\ Cardinality(Greatest(LeftBlocks[left_idx])) > 1

\* the row tables built so far: the one in progress and the finished ones
Tables == {table} \cup {diffs[x].rows : x \in 1..Len(diffs)}

\* positions of the block headers of a table
Headers(t) == {h \in 1..Len(t) : t[h].kind = "block"}

\* position of the last row under the header at position h
SegEnd(t, h) ==
    IF \E h2 \in Headers(t) : h2 > h
    THEN Min({h2 \in Headers(t) : h2 > h}) - 1
    ELSE Len(t)

\* C4: an orphaned left block is a header with empty right name followed
\* only by GapRight rows with empty right text, the terminator row included.
C4_OrphanAllGapRight ==
    \A t \in Tables : \A h \in Headers(t) :
        (t[h].left # "" /\ t[h].right = "")
            => \A k \in (h + 1)..SegEnd(t, h) :
                   t[k].direction = GapRight /\ t[k].right = ""

\* the n-th smallest element of a set of numbers
Nth(S, n) == CHOOSE x \in S : Cardinality({y \in S : y < x}) = n - 1

\* headers of paired or orphaned left blocks, and of tail blocks
LeftHeaders(t) == {h \in Headers(t) : t[h].left # ""}

TailHeaders(t) == {h \in Headers(t) : t[h].left = ""}

\* ids of the right blocks named as partner by some left-block header
Chosen(t, rb) ==
    {id \in 0..(Len(rb) - 1) :
        \E h \in LeftHeaders(t) : t[h].right = BlockName(P, rb[id + 1])}

\* the rows under header h are the all-GapLeft rendering of block b
IsTailSegment(t, h, b) ==
    /\ t[h].right = BlockName(P, b)
    /\ SegEnd(t, h) - h = Len(b.instructions) + 1
    /\ \A k \in 1..Len(b.instructions) :
          t[h + k] = Row("", Render(b.instructions[k]), GapLeft)
    /\ t[SegEnd(t, h)] = Row("", Render(b.terminator), GapLeft)

\* C5: in a finished function diff the tail headers come after every
\* left-block header, and they are, in right-block order and once each,
\* exactly the right blocks never chosen as a partner, each rendered as
\* GapLeft rows for its body instructions and its terminator.
C5_TailPass ==
    \A x \in 1..Len(diffs) :
        LET t == diffs[x].rows
            rb == AllPairs[x][2].blocks
            unchosen == SelectSeq([k \in 1..Len(rb) |-> k - 1],
                                  LAMBDA id : id \notin Chosen(t, rb))
        IN /\ \A h1 \in LeftHeaders(t), h2 \in TailHeaders(t) : h1 < h2
           /\ Cardinality(TailHeaders(t)) = Len(unchosen)
           /\ \A n \in 1..Len(unchosen) :
                 IsTailSegment(t, Nth(TailHeaders(t), n),
                               rb[unchosen[n] + 1])

\* C5 witness: a finished diff whose second right block was chosen by a left
\* block and whose first right block, with a body, was left to the tail
C5_Witness ==
    \E x \in 1..Len(diffs) :
        LET t == diffs[x].rows
            rb == AllPairs[x][2].blocks
        IN /\ Len(rb) = 2
           /\ Chosen(t, rb) = {1}
           /\ rb[1].instructions # <<>>
           /\ Cardinality(TailHeaders(t)) = 1

\* C6: the gap penalty is positive (1 for machine code, 2 for bitcode), so
\* the border cells of every grid are -(i * GAP) and negative.
C6_GapPositive ==
    pc = "emit" =>
        /\ GAP(P) = (IF P = "llvm" THEN 2 ELSE 1)
        /\ \A k \in 1..Len(RightBlocks) :
              LET lb == LeftBlocks[left_idx]
                  grid == Grid(P, lb, RightBlocks[k])
              IN /\ \A i \in 1..Len(lb.instructions) :
                        grid[i, 0].score = -(i * GAP(P)) /\ grid[i, 0].score < 0
                 /\ \A j \in 1..Len(RightBlocks[k].instructions) :
                        grid[0, j].score = -(j * GAP(P)) /\ grid[0, j].score < 0

Max(S) == CHOOSE x \in S : \A y \in S : y <= x

\* a left block has just been emitted with a partner
JustPaired == pc \in {"block", "tail"} /\ left_idx >= 2 /\ best_block.some

\* the left block just emitted and its partner
LastLeft == LeftBlocks[left_idx - 1]

LastRight == RightBlocks[best_block.right_id + 1]

\* position of the header of the rows just emitted
LastHeader == Max(Headers(table))

\* how many rows of table from position a to b - 1 consume a left (a right)
\* instruction
LeftBefore(a, b) ==
    Cardinality({q \in a..(b - 1) : table[q].direction # GapLeft})

RightBefore(a, b) ==
    Cardinality({q \in a..(b - 1) : table[q].direction # GapRight})

\* C7: an Align row of a paired block is exact exactly when the score of the
\* left and right instruction rendered on that row reaches EQUIVALENT, and
\* the terminator row is exact exactly when the terminator score does.
C7_AlignExactIffEquivalent ==
    JustPaired =>
        LET h == LastHeader
            m == Len(LastLeft.instructions)
            n == Len(LastRight.instructions)
        IN /\ table[h] = BlockRow(BlockName(P, LastLeft),
                                  BlockName(P, LastRight))
           /\ \A k \in (h + 1)..(Len(table) - 1) :
                 table[k].direction \in {Align(TRUE), Align(FALSE)} =>
                     LET i == LeftBefore(h + 1, k)
                         j == RightBefore(h + 1, k)
                     IN /\ i < m
                        /\ j < n
                        /\ table[k].left = Render(LastLeft.instructions[i + 1])
                        /\ table[k].right = Render(LastRight.instructions[j + 1])
                        /\ (table[k].direction = Align(TRUE)
                              <=> Score(P, LastLeft.instructions[i + 1],
                                           LastRight.instructions[j + 1])
                                      >= EQUIVALENT)
           /\ table[Len(table)] =
                  Row(Render(LastLeft.terminator), Render(LastRight.terminator),
                      Align(TermScore(P, LastLeft.terminator,
                                         LastRight.terminator) >= EQUIVALENT))

\* C7 witness: the rows just emitted for a paired block hold an exact and an
\* inexact body Align row, above an exact terminator row
C7_Witness ==
    /\ JustPaired
    /\ \E k \in (LastHeader + 1)..(Len(table) - 1) :
          table[k].direction = Align(TRUE)
    /\ \E k \in (LastHeader + 1)..(Len(table) - 1) :
          table[k].direction = Align(FALSE)
    /\ table[Len(table)].direction = Align(TRUE)

\* C8: the diff engine never fails: no traceback index goes below 0, no grid
\* access leaves the table and no get(i) / get(j) is out of bounds.
C8_EngineCannotFail == result.kind # "panic"

\* C8 witness: a finished diff of blocks with an empty body and of blocks
\* without terminator, with a gap row among the rows
C8_Witness ==
    /\ result.kind = "Ok"
    /\ \E x \in 1..Len(diffs) :
          LET t == diffs[x].rows
          IN /\ \E h \in Headers(t) :
                   /\ t[h].left # "" /\ t[h].right # ""
                   /\ SegEnd(t, h) = h + 1
             /\ \E k \in 1..Len(t) :
                   t[k] = Row("<no instruction>", "<no instruction>",
                              Align(TRUE))
             /\ \E k \in 1..Len(t) : IsGap(t[k])

\* the function names of a program
ProgNames(program) == {program[k].name : k \in 1..Len(program)}

\* the function of a program with a given name (names are unique)
ProgFunc(program, fname) ==
    CHOOSE fn \in {program[k] : k \in 1..Len(program)} : fn.name = fname

BothParsed == leftFile.ok /\ rightFile.ok

JustResolved == pc = "pairs" /\ diffs = <<>>

\* C9: with Same or Different on two parsable files, the call fails with
\* NoMatch(Left), NoMatch(Right) or NoMatch(Both) according to the side(s)
\* the name is missing on, and otherwise diffs exactly the pair (left
\* function, right function).
C9_SameDifferentResolution ==
    (BothParsed /\ name.kind \in {"Same", "Different"}) =>
        LET inL == name.l \in ProgNames(left)
            inR == name.r \in ProgNames(right)
        IN /\ pc = "done" =>
                 /\ (~inL /\ inR) => result = Err("NoMatch", "Left")
                 /\ (inL /\ ~inR) => result = Err("NoMatch", "Right")
                 /\ (~inL /\ ~inR) => result = Err("NoMatch", "Both")
                 /\ (inL /\ inR) =>
                        /\ result.kind = "Ok"
                        /\ Len(diffs) = 1
                        /\ diffs[1].left_name = name.l
                        /\ diffs[1].right_name = name.r
                 /\ result.kind # "Ok" => diffs = <<>>
           /\ JustResolved =>
                 /\ inL /\ inR
                 /\ pairs = << <<ProgFunc(left, name.l),
                                 ProgFunc(right, name.r)>> >>

\* C9 witness: Different names a function the right program has and the left
\* program lacks, and the call has failed with NoMatch(Left)
C9_Witness ==
    /\ pc = "done"
    /\ name.kind = "Different"
    /\ name.r \in ProgNames(right)
    /\ left # <<>>
    /\ result = Err("NoMatch", "Left")

\* C10: with Unspecified the function diffs are those of the names in both
\* programs, left and right function of the same name, in the iteration
\* order of the left program; without a common name the call fails with
\* NoMatch(Both) and no diff.
C10_UnspecifiedIntersection ==
    (BothParsed /\ name.kind = "Unspecified") =>
        LET common == SelectSeq(left,
                         LAMBDA fn : fn.name \in ProgNames(right))
        IN /\ pc = "done" =>
                 IF common = <<>>
                 THEN result = Err("NoMatch", "Both") /\ diffs = <<>>
                 ELSE /\ result.kind = "Ok"
                      /\ Len(diffs) = Len(common)
                      /\ \A k \in 1..Len(common) :
                            /\ diffs[k].left_name = common[k].name
                            /\ diffs[k].right_name = common[k].name
           /\ JustResolved =>
                 /\ common # <<>>
                 /\ pairs = [k \in 1..Len(common) |->
                               <<common[k], ProgFunc(right, common[k].name)>>]

\* C10 witness: a finished bitcode diff of two common functions, visited as
\* the left module lists them (g before f) while the right module lists f
\* first
C10_Witness ==
    /\ pc = "done"
    /\ P = "llvm"
    /\ name.kind = "Unspecified"
    /\ Len(diffs) = 2
    /\ diffs[1].left_name = "g"
    /\ right[1].name = "f"

\* The orphan scenario: the left function has the blocks [A; RET] and
\* [B; RET] where A and B score 0 against each other, the right function
\* has the single block [A; RET]
OrphanScenario ==
    /\ Len(AllPairs) = 1
    /\ LET lb == AllPairs[1][1].blocks
           rb == AllPairs[1][2].blocks
       IN /\ Len(lb) = 2
          /\ Len(rb) = 1
          /\ \A k \in 1..2 :
                /\ Len(lb[k].instructions) = 1
                /\ lb[k].terminator \in FlowInsts(P)
          /\ lb[1].terminator = lb[2].terminator
          /\ Score(P, lb[1].instructions[1], lb[2].instructions[1]) = 0
          /\ Score(P, lb[1].instructions[1], lb[1].instructions[1]) = EQUIVALENT
          /\ rb[1] = lb[1]

\* the rows of the first function diff
FirstRows == diffs[1].rows

\* the first left block is paired with the right block, every row exact
FirstBlockExact ==
    LET lb == AllPairs[1][1].blocks
    IN /\ Len(FirstRows) >= 3
       /\ FirstRows[1] = BlockRow(BlockName(P, lb[1]), BlockName(P, lb[1]))
       /\ FirstRows[2] = Row(Render(lb[1].instructions[1]),
                             Render(lb[1].instructions[1]), Align(TRUE))
       /\ FirstRows[3] = Row(Render(lb[1].terminator),
                             Render(lb[1].terminator), Align(TRUE))

MangledScenario ==
    /\ Len(leftFile.funcs) = 1
    /\ Len(rightFile.funcs) = 1
    /\ leftFile.funcs[1].name = MangledLeft
    /\ rightFile.funcs[1].name = MangledRight
    /\ leftFile.funcs[1].blocks = rightFile.funcs[1].blocks
    /\ name = Different(MangledLeft, MangledRight)

\* C12: with the symbols _ZN3fooEv on the left and _ZN3barEv on the right
\* and identical bodies, the selector Different("_ZN3fooEv", "_ZN3barEv")
\* resolves both functions and gives exactly one function diff, every row
\* exact, shown under the demangled names.
C12_DifferentMangled ==
    (pc = "done" /\ MangledScenario) =>
        /\ result.kind = "Ok"
        /\ Len(diffs) = 1
        /\ \A row \in AllRows : ~IsGap(row) /\ ~IsInexact(row)
        /\ diffs[1].left_name = Demangle(MangledLeft)
        /\ diffs[1].right_name = Demangle(MangledRight)

\* the decoder is about to reject the bytes it is given
DecoderRejects == ipc = "decode" /\ Rest.some /\ Decode(Rest.bytes).err

\* C13: when the decoder rejects bytes of a function that parse is
\* converting, parse returns the decode error at once and no Program, with
\* whatever functions (or archive members) were converted before dropped,
\* and compute_diff then returns the parse error of that side without a
\* program for it.
C13_FailFastDecoding ==
    /\ [][DecoderRejects =>
              /\ parsed' = ParsedErr("Yax")
              /\ ipc' = "parsed"]_vars
    /\ []((parsed.kind = "Yax" /\ ipc = "returned") =>
              /\ result = Err("ParseError", side)
              /\ pc = "done"
              /\ left = <<>>
              /\ right = <<>>)

\* C13 witness: the decoder rejected a function after an earlier function
\* of the same file had been converted, and compute_diff has returned
C13_Witness ==
    /\ ipc = "returned"
    /\ parsed.kind = "Yax"
    /\ collected # <<>>
    /\ result = Err("ParseError", side)

\* The blocks of one function of a member taken on its own: the decoded
\* instructions from..to, cut after every flow-control instruction
RECURSIVE OwnBlocks(_, _, _, _, _)
OwnBlocks(bytes, from, to, done, open) ==
    LET rest == NonEmpty(SliceGet(bytes, from, to))
    IN IF ~rest.some
       THEN [err |-> FALSE,
             blocks |-> IF open = <<>> THEN done
                        ELSE PushBlock(done, open, NoneInst)]
       ELSE LET d == Decode(rest.bytes)
            IN IF d.err THEN [err |-> TRUE, blocks |-> <<>>]
               ELSE IF IsFlowControl(P, d.inst)
               THEN OwnBlocks(bytes, from + d.len, to,
                              PushBlock(done, open, d.inst), <<>>)
               ELSE OwnBlocks(bytes, from + d.len, to, done,
                              Append(open, d.inst))

\* The function map of a member taken on its own
OwnMap(member) ==
    LET fn(e) == Func(Demangle(e.name),
                      OwnBlocks(member.buffer, e.start, e.end, <<>>, <<>>).blocks)
    IN BTreeCollect([k \in 1..Len(member.entries) |-> fn(member.entries[k])])

\* the names a map defines
Keys(map) == {map[k].name : k \in 1..Len(map)}

\* an archive has been ingested without error
ArchiveParsed ==
    /\ ipc \in {"parsed", "returned"}
    /\ object.kind = "archive"
    /\ parsed.kind = "Ok"

\* C14: the function map of an archive is the union of the maps of its
\* members, each taken on its own, and a name several members define maps
\* to the function of the last of them in member order.
C14_ArchiveUnionLastWins ==
    ArchiveParsed =>
        LET ms == object.members
            defining(n) == {k \in 1..Len(ms) : n \in Keys(OwnMap(ms[k]))}
            names == UNION {Keys(OwnMap(ms[k])) : k \in 1..Len(ms)}
        IN /\ Keys(parsed.funcs) = names
           /\ Len(parsed.funcs) = Cardinality(names)
           /\ \A n \in names :
                 Get(parsed.funcs, n) = Get(OwnMap(ms[Max(defining(n))]), n)

\* C14 witness: two members define the same name with different bodies
C14_Witness ==
    /\ ArchiveParsed
    /\ Len(object.members) = 2
    /\ Keys(OwnMap(object.members[1])) = Keys(OwnMap(object.members[2]))
    /\ OwnMap(object.members[1]) # OwnMap(object.members[2])
    /\ parsed.funcs = OwnMap(object.members[2])

\* C15: an instruction scored against itself scores at least EQUIVALENT,
\* for the body instructions and the terminators of every ingester,
\* the absent terminator included.
C15_SelfScoreEquivalent ==
    (scored.some /\ self = other) => scored.value >= EQUIVALENT

\* the two instructions have the same opcode and agree on every field the
\* table compares for it
SameComparedFields == self.op = other.op /\ self.f = other.f /\ self.g = other.g

\* C16: every score is one of 0, 1, 2, 3, 4, and it is 4 only for two
\* instructions of the same opcode that agree on every compared field.
C16_ScoreOrdinal ==
    scored.some =>
        /\ scored.value \in 0..4
        /\ (scored.value = 4 => SameComparedFields)

\* the tags the dispatcher is said to recognise
RecognisedTags ==
    {"ll", "ll-ir", "llir", "ll-bc", "llbc", "arm64", "aarch64", "armv8",
     "arm32", "aarch32", "armv7", "avr", "x86", "x86-32", "x86_32", "i386",
     "i686", "x64", "x86-64", "x86_64"}

\* C17: a front end's dispatcher selects an instantiation for exactly the
\* twenty recognised tags, compared case-sensitively, and gives the
\* bad-format outcome for every other tag.
C17_FormatTags ==
    dispatched.some /\ cpc = "dispatched" =>
        (dispatched.target # BadFormat <=> format \in RecognisedTags)

\* the output shows a difference: a gap row, an inexact row or an orphaned
\* block
Difference ==
    \E row \in AllRows : IsGap(row) \/ IsInexact(row) \/ IsOrphanHeader(row)

\* C18: the command line exits with 4 when only the right-hand name is
\* supplied, 2 for an unknown format tag, 3 for a parse error or a function
\* that cannot be resolved, 100 when the terminal cannot be initialised,
\* and otherwise 0 when the inputs show no difference and 1 when they do.
C18_ExitCodes ==
    cpc = "exited" =>
        /\ exit_code \in {0, 1, 2, 3, 4, 100}
        /\ exit_code = 4 <=> (args_name = NoArg /\ args_right_name # NoArg)
        /\ exit_code = 2 => MainFormat(format) = BadFormat
        /\ exit_code = 3 => result.kind \in {"ParseError", "NoMatch"}
        /\ exit_code = 100 => (result.kind = "Ok" /\ ~terminal_ok)
        /\ exit_code = 1 => (result.kind = "Ok" /\ Difference)
        /\ exit_code = 0 => (result.kind = "Ok" /\ ~Difference)

\* a row seen from the other side: the two texts exchanged, and GapLeft
\* and GapRight exchanged
Mirror(row) ==
    [kind |-> row.kind, left |-> row.right, right |-> row.left,
     direction |-> CASE row.direction = GapLeft -> GapRight
                     [] row.direction = GapRight -> GapLeft
                     [] OTHER -> row.direction]

\* how many rows of a table equal a given row
Count(t, row) == Cardinality({k \in 1..Len(t) : t[k] = row})

\* the diff of the k-th function pair taken the other way round
Backward(k) ==
    FunctionRows(P, AllPairs[k][2].blocks, AllPairs[k][1].blocks)

\* C19 as stated: the diff of (L, R) and the diff of (R, L) have the same
\* number of rows and differ only in the orientation of the gap rows.
C19_RowCountSymmetric ==
    result.kind = "Ok" =>
        \A k \in 1..Len(diffs) :
            /\ Len(diffs[k].rows) = Len(Backward(k))
            /\ \A x \in 1..Len(diffs[k].rows) :
                  Count(diffs[k].rows, diffs[k].rows[x])
                      = Count(Backward(k), Mirror(diffs[k].rows[x]))

\* The global alignments of a body of m instructions with one of n, as
\* sequences of moves: "A" aligns the next instruction of each side, "L"
\* leaves a gap on the left (takes a right instruction), "R" a gap on the
\* right (takes a left instruction)
RECURSIVE Alignments(_, _)
Alignments(m, n) ==
    IF m = 0 /\ n = 0 THEN {<<>>}
    ELSE (IF m > 0 /\ n > 0
          THEN {<<"A">> \o a : a \in Alignments(m - 1, n - 1)} ELSE {})
         \cup (IF n > 0
               THEN {<<"L">> \o a : a \in Alignments(m, n - 1)} ELSE {})
         \cup (IF m > 0
               THEN {<<"R">> \o a : a \in Alignments(m - 1, n)} ELSE {})

\* The value of an alignment: the scores of the aligned pairs, minus GAP
\* for every gap
RECURSIVE AlignmentValue(_, _, _, _, _)
AlignmentValue(lb, rb, moves, i, j) ==
    IF moves = <<>> THEN 0
    ELSE IF Head(moves) = "A"
    THEN Score(P, lb.instructions[i + 1], rb.instructions[j + 1])
         + AlignmentValue(lb, rb, Tail(moves), i + 1, j + 1)
    ELSE IF Head(moves) = "L"
    THEN AlignmentValue(lb, rb, Tail(moves), i, j + 1) - GAP(P)
    ELSE AlignmentValue(lb, rb, Tail(moves), i + 1, j) - GAP(P)

\* the greatest value of a global alignment of the two bodies
Optimum(lb, rb) ==
    Max({AlignmentValue(lb, rb, a, 0, 0) :
            a \in Alignments(Len(lb.instructions), Len(rb.instructions))})

\* the moves of a recorded path
MovesOf(path) ==
    [k \in 1..Len(path) |->
        IF path[k] = GapLeft THEN "L"
        ELSE IF path[k] = GapRight THEN "R" ELSE "A"]

\* C20: for every pair of blocks the body score grid[m][n] is the greatest
\* value of a global alignment of the two bodies (aligned pairs count their
\* score, every gap counts -GAP); the path recorded for the chosen right
\* block is a global alignment of that value; and the pair score the choice
\* is made on is that body score plus the score of the two terminators.
C20_GridOptimal ==
    pc = "emit" =>
        LET lb == LeftBlocks[left_idx]
            m == Len(lb.instructions)
        IN /\ \A k \in 1..Len(RightBlocks) :
                 Grid(P, lb, RightBlocks[k])
                     [m, Len(RightBlocks[k].instructions)].score
                     = Optimum(lb, RightBlocks[k])
           /\ best_block.some =>
                 LET rb == RightBlocks[best_block.right_id + 1]
                     moves == MovesOf(best_block.path)
                 IN /\ moves \in Alignments(m, Len(rb.instructions))
                    /\ AlignmentValue(lb, rb, moves, 0, 0) = Optimum(lb, rb)
                    /\ best_block.score =
                           Optimum(lb, rb)
                           + TermScore(P, lb.terminator, rb.terminator)

\* C20 witness: a right block was chosen for a left block, both bodies have
\* two instructions, and the recorded path has an aligned pair and a gap
C20_Witness ==
    /\ pc = "emit"
    /\ best_block.some
    /\ Len(LeftBlocks[left_idx].instructions) = 2
    /\ Len(RightBlocks[best_block.right_id + 1].instructions) = 2
    /\ \E k \in 1..Len(best_block.path) : best_block.path[k] = GapLeft
    /\ \E k \in 1..Len(best_block.path) :
          best_block.path[k] \in {Align(TRUE), Align(FALSE)}

\* how many arrows of a path consume a left (a right) instruction
NotGapLeft(path) == Cardinality({k \in 1..Len(path) : path[k] # GapLeft})

NotGapRight(path) == Cardinality({k \in 1..Len(path) : path[k] # GapRight})

\* the body rows just emitted for a paired block, between the header and the
\* terminator row
LastBodyRows == SubSeq(table, LastHeader + 1, Len(table) - 1)

\* C21: the traceback path of every pair of blocks has as many arrows other
\* than GapLeft as the left body has instructions and as many arrows other
\* than GapRight as the right body has, and the rows of a paired block show
\* every left body instruction once and every right body instruction once,
\* each side in its original order.
C21_PathCoversBothBodies ==
    /\ pc = "emit" =>
           \A k \in 1..Len(RightBlocks) :
               LET lb == LeftBlocks[left_idx]
                   rb == RightBlocks[k]
                   m == Len(lb.instructions)
                   n == Len(rb.instructions)
                   t == Traceback(Grid(P, lb, rb), m, n)
               IN /\ ~t.panicked
                  /\ NotGapLeft(t.path) = m
                  /\ NotGapRight(t.path) = n
    /\ JustPaired =>
           LET onLeft == SelectSeq(LastBodyRows,
                                   LAMBDA row : row.direction # GapLeft)
               onRight == SelectSeq(LastBodyRows,
                                    LAMBDA row : row.direction # GapRight)
           IN /\ [k \in 1..Len(onLeft) |-> onLeft[k].left]
                     = [k \in 1..Len(LastLeft.instructions) |->
                           Render(LastLeft.instructions[k])]
              /\ [k \in 1..Len(onRight) |-> onRight[k].right]
                     = [k \in 1..Len(LastRight.instructions) |->
                           Render(LastRight.instructions[k])]
              /\ \A k \in 1..Len(LastBodyRows) :
                    /\ LastBodyRows[k].direction = GapLeft
                           => LastBodyRows[k].left = ""
                    /\ LastBodyRows[k].direction = GapRight
                           => LastBodyRows[k].right = ""

\* C21 witness: the rows just emitted for a paired block hold an aligned
\* pair and a gap, and the two bodies differ in length
C21_Witness ==
    /\ JustPaired
    /\ Len(LastLeft.instructions) = 2
    /\ Len(LastRight.instructions) = 1
    /\ \E k \in 1..Len(LastBodyRows) : LastBodyRows[k].direction = GapRight
    /\ \E k \in 1..Len(LastBodyRows) :
          LastBodyRows[k].direction \in {Align(TRUE), Align(FALSE)}

\* The instructions the decoder yields over the bytes from..to of a buffer,
\* in order, each starting where the one before ended
RECURSIVE DecodedSeq(_, _, _, _)
DecodedSeq(bytes, from, to, acc) ==
    LET rest == NonEmpty(SliceGet(bytes, from, to))
    IN IF ~rest.some THEN [err |-> FALSE, insts |-> acc]
       ELSE LET d == Decode(rest.bytes)
            IN IF d.err THEN [err |-> TRUE, insts |-> acc]
               ELSE DecodedSeq(bytes, from + d.len, to, Append(acc, d.inst))

\* body then terminator of every block, in block order
RECURSIVE Flatten(_)
Flatten(bs) ==
    IF bs = <<>> THEN <<>>
    ELSE Head(bs).instructions
         \o (IF Head(bs).terminator = NoneInst THEN <<>>
             ELSE <<Head(bs).terminator>>)
         \o Flatten(Tail(bs))

\* convert has just finished a function: its range was decoded without error
JustConverted == ipc = "convert" /\ collected # <<>>

LastConverted == collected[Len(collected)]

\* C22: when the byte range of a function has been decoded without error,
\* the bodies and terminators of its blocks, in order, are exactly the
\* decoded instructions; no body instruction is flow control; every present
\* terminator is flow control; only the last block can lack a terminator,
\* and then its body is not empty; block i has id i and display name i.
C22_DecodeAndSplit ==
    JustConverted =>
        LET bs == LastConverted.blocks
            d == DecodedSeq(buffer, start, end, <<>>)
        IN /\ ~d.err
           /\ Flatten(bs) = d.insts
           /\ \A b \in 1..Len(bs) :
                 /\ \A k \in 1..Len(bs[b].instructions) :
                       ~IsFlowControl(P, bs[b].instructions[k])
                 /\ bs[b].terminator # NoneInst
                       => IsFlowControl(P, bs[b].terminator)
                 /\ bs[b].terminator = NoneInst
                       => b = Len(bs) /\ bs[b].instructions # <<>>
                 /\ bs[b].id = b - 1
                 /\ BlockName(P, bs[b]) = ToString(b - 1)

\* C22 witness: a function of two blocks, the first closed by a flow-control
\* instruction, the second a dangling two-byte instruction without
\* terminator
C22_Witness ==
    /\ JustConverted
    /\ Len(LastConverted.blocks) = 2
    /\ LastConverted.blocks[1].terminator # NoneInst
    /\ LastConverted.blocks[2].terminator = NoneInst
    /\ LastConverted.blocks[2].instructions = <<Inst("ldi", 0, 0)>>

\* extract has just handed the entries of a container to convert
JustExtracted == ipc = "convert" /\ collected = <<>> /\ fn_name = ""

\* a file of the given container has been ingested without error
ParsedContainer(kind) ==
    /\ ipc \in {"parsed", "returned"}
    /\ object.kind = kind
    /\ parsed.kind = "Ok"

\* the file offsets of the exports of a PE that are greater than s
GreaterOffsets(exports, s) ==
    {exports[k].offset : k \in 1..Len(exports)} \ (-1..s)

\* positions of the exports that have a name, an offset and an export of
\* greater offset
Sized(exports) ==
    {k \in 1..Len(exports) :
        /\ exports[k].name # NoName
        /\ exports[k].offset # NoOffset
        /\ GreaterOffsets(exports, exports[k].offset) # {}}

RECURSIVE SectionsBefore(_, _)
SectionsBefore(segs, k) ==
    IF k <= 1 THEN 0
    ELSE SectionsBefore(segs, k - 1) + segs[k - 1].nsects

\* the 1-based section index n_sect resolves to a section whose flags
\* include PURE_INSTRUCTIONS or SOME_INSTRUCTIONS
InCodeSection(segs, n_sect) ==
    /\ n_sect # NO_SECT
    /\ \E k \in 1..Len(segs) :
          LET idx == n_sect - SectionsBefore(segs, k)
          IN /\ idx \in 1..segs[k].nsects
             /\ segs[k].readable
             /\ segs[k].sections[idx]
                    \cap {S_ATTR_PURE_INSTRUCTIONS,
                          S_ATTR_SOME_INSTRUCTIONS} # {}

\* C24: of a thin Mach-O, every entry taken from the symbol table is a
\* symbol in a section flagged PURE_INSTRUCTIONS or SOME_INSTRUCTIONS; a
\* symbol in no section, or whose section index does not resolve to such a
\* section, gives no entry and its name no function of the program (unless
\* a symbol of a flagged section or an export carries the same name).
C24_MachCodeSectionsOnly ==
    /\ (JustExtracted /\ current.kind = "mach") =>
           \A n \in 1..(Len(iter) - Len(current.entries)) :
               \E k \in 1..Len(current.symbols) :
                   /\ ~current.symbols[k].err
                   /\ current.symbols[k].name = iter[n].name
                   /\ InCodeSection(current.segments,
                                    current.symbols[k].n_sect)
    /\ ParsedContainer("mach") =>
           LET syms == object.symbols
               inCode == {k \in 1..Len(syms) :
                             /\ ~syms[k].err
                             /\ InCodeSection(object.segments,
                                              syms[k].n_sect)}
               supplied == {syms[k].name : k \in inCode}
                           \cup {object.entries[x].name :
                                    x \in 1..Len(object.entries)}
           IN \A k \in 1..Len(syms) :
                 (~syms[k].err /\ k \notin inCode
                     /\ syms[k].name \notin supplied)
                     => Demangle(syms[k].name) \notin Keys(parsed.funcs)

\* C25: for machine code (GAP = -1) the pair score of two blocks is at
\* least the number of body instructions of the two blocks together, so a
\* left block is orphaned only if the right function has no blocks, or if
\* its own body is empty and every right block has an empty body and a
\* terminator that scores 0 against the left block's terminator.
C25_MachinePairScoreBound ==
    (pc = "emit" /\ P \in MachineIngesters) =>
        LET lb == LeftBlocks[left_idx]
        IN /\ GAP(P) = -1
           /\ \A k \in 1..Len(RightBlocks) :
                 PairScore(P, lb, RightBlocks[k])
                     >= Len(lb.instructions)
                        + Len(RightBlocks[k].instructions)
           /\ ~best_block.some =>
                 \/ RightBlocks = <<>>
                 \/ /\ lb.instructions = <<>>
                    /\ \A k \in 1..Len(RightBlocks) :
                          /\ RightBlocks[k].instructions = <<>>
                          /\ TermScore(P, lb.terminator,
                                       RightBlocks[k].terminator) = 0

\* C25 witness: a machine-code left block is orphaned although the right
\* function has a block
C25_Witness ==
    /\ pc = "emit"
    /\ P \in MachineIngesters
    /\ ~best_block.some
    /\ RightBlocks # <<>>

\* C25 witness of the bound: two machine-code bodies without a common
\* instruction are paired on gap rewards alone
C25_WitnessBound ==
    /\ pc = "emit"
    /\ P \in MachineIngesters
    /\ best_block.some
    /\ best_block.score = Len(LeftBlocks[left_idx].instructions)
           + Len(RightBlocks[best_block.right_id + 1].instructions)
    /\ Len(LeftBlocks[left_idx].instructions) >= 1
    /\ Len(RightBlocks[best_block.right_id + 1].instructions) >= 1

\* The scores of the three candidates of the interior cell (i, j) of the
\* grid of two blocks: aligning instruction i with instruction j, a gap on
\* the left (instruction j alone), a gap on the right (instruction i alone)
CandidateScores(lb, rb, i, j) ==
    LET grid == Grid(P, lb, rb)
    IN [align |-> grid[i - 1, j - 1].score
                  + Score(P, lb.instructions[i], rb.instructions[j]),
        gapLeft |-> grid[i, j - 1].score - GAP(P),
        gapRight |-> grid[i - 1, j].score - GAP(P)]

\* the interior cells of the grid of two blocks
Interior(lb, rb) ==
    (1..Len(lb.instructions)) \X (1..Len(rb.instructions))

\* C26: every interior cell holds the greatest of its three candidate
\* scores and, among the candidates of that score, the last in the order
\* Align, GapLeft, GapRight: GapRight whenever it is maximal, else GapLeft
\* whenever it is maximal, else Align.
C26_TieBreakLastWins ==
    pc = "emit" =>
        \A k \in 1..Len(RightBlocks) :
            LET lb == LeftBlocks[left_idx]
                rb == RightBlocks[k]
                grid == Grid(P, lb, rb)
            IN \A c \in Interior(lb, rb) :
                  LET cs == CandidateScores(lb, rb, c[1], c[2])
                      top == Max({cs.align, cs.gapLeft, cs.gapRight})
                      cell == grid[c[1], c[2]]
                  IN /\ cell.score = top
                     /\ IF cs.gapRight = top
                        THEN cell.direction = GapRight
                        ELSE IF cs.gapLeft = top
                        THEN cell.direction = GapLeft
                        ELSE cell.direction \in {Align(TRUE), Align(FALSE)}

\* C26 witness: the grid of the chosen pair has a cell where Align ties
\* with a gap of greatest score, and a cell where the two gaps tie
C26_Witness ==
    /\ pc = "emit"
    /\ best_block.some
    /\ LET lb == LeftBlocks[left_idx]
           rb == RightBlocks[best_block.right_id + 1]
       IN /\ \E c \in Interior(lb, rb) :
                LET cs == CandidateScores(lb, rb, c[1], c[2])
                IN /\ cs.align = Max({cs.align, cs.gapLeft, cs.gapRight})
                   /\ cs.align \in {cs.gapLeft, cs.gapRight}
          /\ \E c \in Interior(lb, rb) :
                LET cs == CandidateScores(lb, rb, c[1], c[2])
                IN /\ cs.gapLeft = cs.gapRight
                   /\ cs.gapLeft >= cs.align

\* C27: in a finished function diff every left block has exactly one
\* block header, the headers of the left blocks come in left-block order,
\* every right block is named by the header of some left block or by
\* exactly one tail header (never by both), and the number of block headers
\* is the number of left blocks plus the number of right blocks no left
\* block chose.
C27_HeadersComplete ==
    \A x \in 1..Len(diffs) :
        LET t == diffs[x].rows
            lb == AllPairs[x][1].blocks
            rb == AllPairs[x][2].blocks
            chosen == Chosen(t, rb)
            inTail(id) == {h \in TailHeaders(t) :
                             t[h].right = BlockName(P, rb[id + 1])}
        IN /\ Cardinality(LeftHeaders(t)) = Len(lb)
           /\ \A k \in 1..Len(lb) :
                 t[Nth(LeftHeaders(t), k)].left = BlockName(P, lb[k])
           /\ \A id \in 0..(Len(rb) - 1) :
                 Cardinality(inTail(id)) = (IF id \in chosen THEN 0 ELSE 1)
           /\ \A h \in TailHeaders(t) :
                 \E id \in 0..(Len(rb) - 1) : h \in inTail(id)
           /\ Cardinality(Headers(t))
                 = Len(lb) + Len(rb) - Cardinality(chosen)

\* C27 witness: two left blocks chose the same right block and the other
\* right block went to the tail: three headers for two blocks on each side
C27_Witness ==
    \E x \in 1..Len(diffs) :
        LET t == diffs[x].rows
        IN /\ Len(AllPairs[x][1].blocks) = 2
           /\ Len(AllPairs[x][2].blocks) = 2
           /\ Cardinality(Chosen(t, AllPairs[x][2].blocks)) = 1
           /\ Cardinality(Headers(t)) = 3

\* C28: the left file is parsed first, then the right file, then the
\* selector is resolved.  When the left file does not parse, the right file
\* is never parsed and the result is ParseError(Left); when only the right
\* file does not parse the result is ParseError(Right); a NoMatch result is
\* returned only when both files parsed.
C28_ParseOrder ==
    /\ [][/\ pc' = "parse_right" => pc = "parse_left"
          /\ pc' = "resolve" => pc = "parse_right"
          /\ (pc = "parse_left" /\ ~leftFile.ok)
                => (result' = Err("ParseError", "Left") /\ pc' = "done"
                    /\ right' = right)
          /\ (pc = "parse_right" /\ ~rightFile.ok)
                => (result' = Err("ParseError", "Right") /\ pc' = "done")]_vars
    /\ [](~leftFile.ok => pc \in {"parse_left", "done"})
    /\ []((pc = "done" /\ ~leftFile.ok)
             => result = Err("ParseError", "Left"))
    /\ []((pc = "done" /\ leftFile.ok /\ ~rightFile.ok)
             => result = Err("ParseError", "Right"))
    /\ [](result.kind = "NoMatch" => leftFile.ok /\ rightFile.ok)

\* C28 witness: the right file does not parse and the selected function is
\* missing from the left file; the result is the parse error
C28_Witness ==
    /\ pc = "done"
    /\ leftFile.ok
    /\ ~rightFile.ok
    /\ name = Same("g")
    /\ Get(left, "g") = NoFunc
    /\ result = Err("ParseError", "Right")

\* C28 witness of the left side: neither file parses
C28_WitnessLeft ==
    /\ pc = "done"
    /\ ~leftFile.ok
    /\ ~rightFile.ok
    /\ result = Err("ParseError", "Left")

\* The cell the traceback stands on when k arrows of the (reversed) path
\* remain below it: the arrows 1..k lead from (0, 0) to that cell
CellAfter(path, k) ==
    <<NotGapLeft(SubSeq(path, 1, k)), NotGapRight(SubSeq(path, 1, k))>>

\* steps the loops over the given function pairs take: two for every left
\* block (the search for a partner, the rows), one before and one after
RECURSIVE PairSteps(_)
PairSteps(ps) ==
    IF ps = <<>> THEN 0
    ELSE 2 * Len(Head(ps)[1].blocks) + 2 + PairSteps(Tail(ps))

\* An upper bound of the steps compute_diff has yet to take
Steps ==
    LET ahead == PairSteps([k \in 1..Len(leftFile.funcs) |->
                               <<leftFile.funcs[k], leftFile.funcs[k]>>]) + 1
        later == PairSteps(Tail(pairs)) + 1
        todo == Len(LeftBlocks) - left_idx + 1
    IN CASE pc = "parse_left" -> ahead + 3
         [] pc = "parse_right" -> ahead + 2
         [] pc = "resolve" -> ahead + 1
         [] pc = "pairs" -> PairSteps(pairs) + 1
         [] pc = "block" -> 2 * todo + 1 + later
         [] pc = "emit" -> 2 * todo + later
         [] pc = "tail" -> 1 + later
         [] OTHER -> 0

\* the guard of some step of compute_diff holds, and the blocks the step
\* reads exist
Guarded ==
    \/ pc \in {"parse_left", "parse_right", "resolve", "pairs"}
    \/ /\ pc \in {"block", "emit"}
       /\ pairs # <<>>
       /\ left_idx \in 1..Len(LeftBlocks)
       /\ best_block.some => best_block.right_id < Len(RightBlocks)
    \/ pc = "tail" /\ pairs # <<>>

\* C29: compute_diff terminates: every step lowers a bound on the steps
\* left, and until it has returned the guard of a step holds.  In the grid
\* of every pair of blocks each cell other than (0, 0) holds an arrow; the
\* traceback from (m, n) reads,
\* at every cell it stands on, the arrow it pushes, moves to a cell of
\* smaller i + j inside the grid, and ends on (0, 0) without an index error,
\* so the path has at least max(m, n) and at most m + n arrows.
C29_TracebackTerminates ==
    /\ [](pc = "emit" =>
            \A r \in 1..Len(RightBlocks) :
                LET lb == LeftBlocks[left_idx]
                    rb == RightBlocks[r]
                    m == Len(lb.instructions)
                    n == Len(rb.instructions)
                    grid == Grid(P, lb, rb)
                    t == Traceback(grid, m, n)
                    len == Len(t.path)
                IN /\ \A c \in (0..m) \X (0..n) :
                         (grid[c[1], c[2]].direction = NoDirection)
                             <=> c = <<0, 0>>
                   /\ ~t.panicked
                   /\ CellAfter(t.path, len) = <<m, n>>
                   /\ \A k \in 1..len :
                         LET c == CellAfter(t.path, k)
                             b == CellAfter(t.path, k - 1)
                         IN /\ c[1] \in 0..m /\ c[2] \in 0..n
                            /\ grid[c[1], c[2]].direction = t.path[k]
                            /\ b[1] + b[2] < c[1] + c[2]
                   /\ len <= m + n
                   /\ len >= Max({m, n}))
    /\ [](Steps \in Nat)
    /\ [][Steps' < Steps]_vars
    /\ [](pc # "done" => Guarded)

\* C29 witness: the traceback of the chosen pair took fewer than m + n and
\* more than max(m, n) steps, and compute_diff has returned
C29_Witness ==
    /\ pc = "done"
    /\ result.kind = "Ok"
    /\ \E x \in 1..Len(diffs) :
          LET t == diffs[x].rows
          IN /\ \E k \in 1..Len(t) : t[k].direction = GapRight
             /\ \E k \in 1..Len(t) : t[k].direction = Align(TRUE)
             /\ Len(AllPairs[x][1].blocks) = 1
             /\ Len(AllPairs[x][2].blocks) = 1
             /\ Len(AllPairs[x][1].blocks[1].instructions) = 2
             /\ Len(AllPairs[x][2].blocks[1].instructions) = 1

\* C30: while the browser runs, active_tab is an index of a function diff;
\* it changes only by one: up on Right when below the last index, down on
\* Left when above 0; every other key leaves it as it is; and the loop is
\* left only on Esc, x or q.
C30_ActiveTabValid ==
    /\ [](cpc = "browse" =>
            (diffs # <<>> /\ active_tab \in 0..(Len(diffs) - 1)))
    /\ [][cpc = "browse" =>
            /\ active_tab' # active_tab =>
                  \/ /\ Key("Right")
                     /\ active_tab < Len(diffs) - 1
                     /\ active_tab' = active_tab + 1
                  \/ /\ Key("Left")
                     /\ active_tab > 0
                     /\ active_tab' = active_tab - 1
            /\ cpc' # "browse" =>
                  \E key \in {"Esc", "x", "q"} : Key(key)
            /\ \A key \in KeyCodes :
                  Key(key) =>
                      /\ (cpc' # "browse") <=> key \in {"Esc", "x", "q"}
                      /\ key \notin {"Right", "Left"}
                            => active_tab' = active_tab
                      /\ (key = "Right" /\ active_tab = Len(diffs) - 1)
                            => active_tab' = active_tab
                      /\ (key = "Left" /\ active_tab = 0)
                            => active_tab' = active_tab]_vars

\* C30 witness: with two function diffs, Right has moved the browser to
\* the last tab
C30_Witness ==
    /\ cpc = "browse"
    /\ Len(diffs) = 2
    /\ active_tab = 1

====
